---- MODULE Spec2Model ----
(***************************************************************************)
(* Commute-ETA engine: station graph and direction resolver, arrival       *)
(* aggregator, intercity timetable service and ETA calculator.             *)
(*                                                                         *)
(* Strings are ASCII: Korean station, line and direction names are written *)
(* romanised (the suffix "역" is "yeok", "상행"/"하행" are "sanghaeng" /   *)
(* "hahaeng", "외선"/"내선" are "oeseon"/"naeseon").                       *)
(***************************************************************************)
EXTENDS Integers, Sequences, FiniteSets, TLC

(***************************************************************************)
(* Bounds of the model.                                                    *)
(***************************************************************************)
\* transit legs of a saved route
MaxLegs == 2
\* entries of one upstream response inside an ETA computation
MaxFeed == 1
\* entries of one upstream response given to the aggregator alone
MaxRaw == 3
\* saved routes of one dashboard request (their legs total at most MaxLegs)
MaxRoutes == 2
\* getAllTransitArrivals calls made on one service instance
MaxCalls == 2
\* the clock moves in steps of TickMs up to MaxClock
TickMs == 10000
MaxClock == 20000

(***************************************************************************)
(* String helpers (JavaScript String methods used by the code).            *)
(***************************************************************************)
NULL == ""

EndsWith(s, t) ==
  Len(s) >= Len(t) /\ SubSeq(s, Len(s) - Len(t) + 1, Len(s)) = t

Includes(s, t) ==
  \E i \in 0..(Len(s) - Len(t)) : SubSeq(s, i + 1, i + Len(t)) = t

RECURSIVE RemoveSpaces(_)
RemoveSpaces(s) ==
  IF Len(s) = 0 THEN ""
  ELSE LET c == SubSeq(s, 1, 1)
           r == RemoveSpaces(SubSeq(s, 2, Len(s)))
       IN IF c = " " THEN r ELSE c \o r

UpperChars == "ABCDEFGHIJKLMNOPQRSTUVWXYZ"
LowerChars == "abcdefghijklmnopqrstuvwxyz"

LowerChar(c) ==
  IF \E k \in 1..26 : SubSeq(UpperChars, k, k) = c
  THEN LET k == CHOOSE k \in 1..26 : SubSeq(UpperChars, k, k) = c
       IN SubSeq(LowerChars, k, k)
  ELSE c

RECURSIVE toLowerCase(_)
toLowerCase(s) ==
  IF Len(s) = 0 THEN ""
  ELSE LowerChar(SubSeq(s, 1, 1)) \o toLowerCase(SubSeq(s, 2, Len(s)))

Digits == "0123456789"

IsDigit(c) == \E k \in 1..10 : SubSeq(Digits, k, k) = c

DigitVal(c) == (CHOOSE k \in 1..10 : SubSeq(Digits, k, k) = c) - 1

RECURSIVE ParseDigits(_, _)
ParseDigits(s, acc) ==
  IF Len(s) = 0 \/ ~IsDigit(SubSeq(s, 1, 1)) THEN acc
  ELSE ParseDigits(SubSeq(s, 2, Len(s)), acc * 10 + DigitVal(SubSeq(s, 1, 1)))

\* parseInt(s, 10) || 0 on an unsigned decimal text: NaN and 0 both give 0
parseIntOr0(s) ==
  IF Len(s) = 0 \/ ~IsDigit(SubSeq(s, 1, 1)) THEN 0 ELSE ParseDigits(s, 0)

\* index of the first occurrence of x in seq, 0 when absent (JS indexOf + 1)
IndexOf(seq, x) ==
  IF \E k \in 1..Len(seq) : seq[k] = x
  THEN CHOOSE k \in 1..Len(seq) :
         seq[k] = x /\ \A m \in 1..(k - 1) : seq[m] # x
  ELSE 0

SeqIncludes(seq, x) == \E k \in 1..Len(seq) : seq[k] = x

RECURSIVE Reverse(_)
Reverse(seq) ==
  IF Len(seq) = 0 THEN <<>> ELSE Append(Reverse(Tail(seq)), Head(seq))


(***************************************************************************)
(* src/data/subway-stations.ts: station order tables (romanised).          *)
(* Lines 1032 (linear), 1005 (linear with a branch) and 1002 (circular     *)
(* with two branches) are carried over in full.                            *)
(***************************************************************************)
SUBWAY_LINES ==
  ( "1032" :>
      [ type |-> "linear",
        directions |-> [forward |-> "hahaeng", backward |-> "sanghaeng"],
        stations |-> << "unjeongjungang", "kintex", "daegok", "yeonsinnae",
                        "seoulyeok", "samseong", "suseo", "seongnam",
                        "yongin", "dongtan" >>,
        branches |-> << >> ] )
  @@ ( "1005" :>
      [ type |-> "linear",
        directions |-> [forward |-> "hahaeng", backward |-> "sanghaeng"],
        stations |-> << "banghwa", "gaehwasan", "gimpogonghang", "songjeong",
                        "magok", "balsan", "ujangsan", "hwagok", "kkachisan",
                        "sinjeong", "mokdong", "omokgyo", "yangpyeong",
                        "yeongdeungpogucheong", "yeongdeungposijang",
                        "singil", "yeouido", "yeouinaru", "mapo", "gongdeok",
                        "aeogae", "chungjeongno", "seodaemun", "gwanghwamun",
                        "jongno3ga", "euljiro4ga",
                        "dongdaemunyeoksamunhwagongwon", "cheonggu",
                        "singeumho", "haengdang", "wangsimni", "majang",
                        "dapsimni", "janghanpyeong", "gunja", "achasan",
                        "gwangnaru", "cheonho", "gangdong", "gildong",
                        "gubeundari", "myeongil", "godeok", "sangildong",
                        "gangil", "misa", "hanampungsan", "hanamsicheong",
                        "hanamgeomdansan" >>,
        branches |-> << [ branchPoint |-> "gangdong",
                          stations |-> << "dunchondong", "olympicgongwon",
                                          "bangi", "ogeum", "gaerong",
                                          "geoyeo", "macheon" >> ] >> ] )
  @@ ( "1002" :>
      [ type |-> "circular",
        directions |-> [forward |-> "oeseon", backward |-> "naeseon"],
        stations |-> << "sicheong", "euljiroipgu", "euljiro3ga", "euljiro4ga",
                        "dongdaemunyeoksamunhwagongwon", "sindang",
                        "sangwangsimni", "wangsimni", "hanyangdae",
                        "ttukseom", "seongsu", "geondaeipgu", "guui",
                        "gangbyeon", "jamsillaru", "jamsil", "jamsilsaenae",
                        "jonghapundongjang", "samseong", "seolleung",
                        "yeoksam", "gangnam", "gyodae", "seocho", "bangbae",
                        "sadang", "nakseongdae", "seouldaeipgu", "bongcheon",
                        "sillim", "sindaebang", "gurodigitaldanji", "daerim",
                        "sindorim", "mullae", "yeongdeungpogucheong",
                        "dangsan", "hapjeong", "hongdaeipgu", "sinchon",
                        "idae", "ahyeon", "chungjeongno" >>,
        branches |-> << [ branchPoint |-> "seongsu",
                          stations |-> << "yongdap", "sindap", "yongdu",
                                          "sinseoldong" >> ],
                        [ branchPoint |-> "sindorim",
                          stations |-> << "dorimcheon", "yangcheongucheong",
                                          "sinjeongnegeori",
                                          "kkachisan" >> ] >> ] )

\* Object.keys(SUBWAY_LINES): the subwayId values that have a table
LineIds == DOMAIN SUBWAY_LINES

\* "강남역" -> "강남": strip one trailing "역", remove whitespace
normalizeStationName(name) ==
  RemoveSpaces(IF EndsWith(name, "yeok")
               THEN SubSeq(name, 1, Len(name) - 4) ELSE name)

(***************************************************************************)
(* src/data/subway-graph.ts: per-line adjacency graph and BFS.             *)
(* adjacency maps a node to its neighbours in insertion order (a JS Set).  *)
(***************************************************************************)
\* the ascending enumeration of a finite set of integers
Ascending(S) ==
  [k \in 1..Cardinality(S) |->
     CHOOSE i \in S : Cardinality({j \in S : j < i}) = k - 1]

\* the addEdge(a, b) calls of buildLineGraph, in call order
mainEdges(line) ==
  [i \in 1..(Len(line.stations) - 1) |->
     <<line.stations[i], line.stations[i + 1]>>]

circularEdge(line) ==
  IF line.type = "circular" /\ Len(line.stations) > 1
  THEN << <<line.stations[Len(line.stations)], line.stations[1]>> >>
  ELSE << >>

branchEdges(br) ==
  << <<br.branchPoint, br.stations[1]>> >>
  \o [i \in 1..(Len(br.stations) - 1) |->
        <<br.stations[i], br.stations[i + 1]>>]

RECURSIVE allBranchEdges(_, _)
allBranchEdges(branches, b) ==
  IF b > Len(branches) THEN << >>
  ELSE branchEdges(branches[b]) \o allBranchEdges(branches, b + 1)

addEdgeCalls(line) ==
  LET raw == mainEdges(line) \o circularEdge(line)
             \o allBranchEdges(line.branches, 1)
  IN [i \in 1..Len(raw) |->
        <<normalizeStationName(raw[i][1]), normalizeStationName(raw[i][2])>>]

\* adjacency.get(n): the other ends of n's edges, a Set in insertion order
neighboursOf(edges, n) ==
  LET other(i) == IF edges[i][1] = n THEN edges[i][2] ELSE edges[i][1]
      mine == { i \in 1..Len(edges) : edges[i][1] = n \/ edges[i][2] = n }
      firsts == { i \in mine : \A j \in mine : j < i => other(j) # other(i) }
      order == Ascending(firsts)
  IN [k \in 1..Len(order) |-> other(order[k])]

buildLineGraph(line) ==
  LET edges == addEdgeCalls(line)
      allStations == { edges[i][1] : i \in 1..Len(edges) }
                     \cup { edges[i][2] : i \in 1..Len(edges) }
  IN [adjacency |-> [n \in allStations |-> neighboursOf(edges, n)],
      stations |-> allStations]

graphCache == [id \in LineIds |-> buildLineGraph(SUBWAY_LINES[id])]

\* a path is a non-empty sequence of nodes; "no path" (null) is << >>
NoPath == << >>

RECURSIVE Backtrack(_, _, _)
Backtrack(parent, node, path) ==
  IF node \in DOMAIN parent
  THEN Backtrack(parent, parent[node], <<node>> \o path)
  ELSE <<node>> \o path

RECURSIVE BfsLoop(_, _, _, _, _)
\* the while loop of findPath: one dequeue and its neighbour scan per step
BfsLoop(adj, to, visited, parent, queue) ==
  IF Len(queue) = 0 THEN NoPath
  ELSE LET current == Head(queue)
           fresh == SelectSeq(adj[current], LAMBDA n : n \notin visited)
           freshSet == { fresh[k] : k \in 1..Len(fresh) }
           p2 == [n \in freshSet |-> current] @@ parent
       IN IF to \in freshSet THEN Backtrack(p2, to, << >>)
          ELSE BfsLoop(adj, to, visited \cup freshSet, p2,
                       Tail(queue) \o fresh)

findPath(graph, from, to) ==
  IF from = to THEN <<from>>
  ELSE IF from \notin DOMAIN graph.adjacency \/ to \notin DOMAIN graph.adjacency
       THEN NoPath
       ELSE BfsLoop(graph.adjacency, to, {from}, << >>, <<from>>)

(***************************************************************************)
(* getDirectedCircularPath: walk the main loop in the reported direction,  *)
(* splicing branches.  Indices are 1-based here, 0 means "not found".      *)
(***************************************************************************)
RECURSIVE walkLoop(_, _, _, _, _, _)
walkLoop(main, isForward, idx, toIdx, steps, path) ==
  LET mainLen == Len(main)
      maxSteps == mainLen + 1
  IN IF steps > maxSteps THEN path
     ELSE LET p2 == Append(path, main[idx])
          IN IF idx = toIdx /\ Len(p2) > 1 THEN p2
             ELSE walkLoop(main, isForward,
                           IF isForward THEN (idx % mainLen) + 1
                           ELSE ((idx - 2 + mainLen) % mainLen) + 1,
                           toIdx, steps + 1, p2)

\* a bug this model is checked against: the loop walked against the direction
walkAgainstDirection(main, isForward, fromIdx, toIdx) ==
  walkLoop(main, ~isForward, fromIdx, toIdx, 0, << >>)

walkMainLine(main, isForward, fromIdx, toIdx) ==
  walkLoop(main, isForward, fromIdx, toIdx, 0, << >>)

normalizedStations(st) ==
  [i \in 1..Len(st) |-> normalizeStationName(st[i])]

NoBranch ==
  [found |-> FALSE, branchIdx |-> 0, stationIdx |-> 0, branchPoint |-> ""]

\* the branches (1-based) whose stations hold the station
branchesWith(line, station) ==
  { b \in 1..Len(line.branches) :
      SeqIncludes(normalizedStations(line.branches[b].stations), station) }

branchInfoAt(line, b, station) ==
  [found |-> TRUE, branchIdx |-> b,
   stationIdx |->
     IndexOf(normalizedStations(line.branches[b].stations), station),
   branchPoint |-> normalizeStationName(line.branches[b].branchPoint)]

firstOf(hits) == CHOOSE b \in hits : \A c \in hits : b <= c

\* [branchIdx, stationIdx, branchPoint] of the first branch holding the station
findBranchInfo(line, station) ==
  IF branchesWith(line, station) = {} THEN NoBranch
  ELSE branchInfoAt(line, firstOf(branchesWith(line, station)), station)

getBranchPath(line, branchIdx, upToStationIdx) ==
  normalizedStations(SubSeq(line.branches[branchIdx].stations, 1,
                            upToStationIdx))

\* cases 2 and 3: main line to branch, branch to main line (bp = 0: null)
mainThenBranch(line, main, isForward, startMainIdx, bp, terminalBranch) ==
  IF bp = 0 THEN NoPath
  ELSE walkMainLine(main, isForward, startMainIdx, bp)
       \o getBranchPath(line, terminalBranch.branchIdx,
                        terminalBranch.stationIdx)

branchThenMain(line, main, isForward, startBranch, bp, terminalMainIdx) ==
  IF bp = 0 THEN NoPath
  ELSE Reverse(getBranchPath(line, startBranch.branchIdx,
                             startBranch.stationIdx))
       \o walkMainLine(main, isForward, bp, terminalMainIdx)

\* case 4: both on branches
withinBranch(st, startIdx, terminalIdx) ==
  IF startIdx <= terminalIdx THEN SubSeq(st, startIdx, terminalIdx)
  ELSE Reverse(SubSeq(st, terminalIdx, startIdx))

branchToBranch(line, main, isForward, startBranch, terminalBranch, startBp, terminalBp) ==
  IF startBranch.branchIdx = terminalBranch.branchIdx
  THEN withinBranch(
         normalizedStations(line.branches[startBranch.branchIdx].stations),
         startBranch.stationIdx, terminalBranch.stationIdx)
  ELSE IF startBp = 0 \/ terminalBp = 0 THEN NoPath
  ELSE Reverse(getBranchPath(line, startBranch.branchIdx,
                             startBranch.stationIdx))
       \o walkMainLine(main, isForward, startBp, terminalBp)
       \o getBranchPath(line, terminalBranch.branchIdx,
                        terminalBranch.stationIdx)

\* the four cases, the indices and branch lookups being made
directedPath(line, main, isForward, startMainIdx, terminalMainIdx, startBranch, terminalBranch) ==
  IF startMainIdx # 0 /\ terminalMainIdx # 0
  THEN walkMainLine(main, isForward, startMainIdx, terminalMainIdx)
  ELSE IF startMainIdx # 0 /\ terminalBranch.found
  THEN mainThenBranch(line, main, isForward, startMainIdx,
                      IndexOf(main, terminalBranch.branchPoint),
                      terminalBranch)
  ELSE IF startBranch.found /\ terminalMainIdx # 0
  THEN branchThenMain(line, main, isForward, startBranch,
                      IndexOf(main, startBranch.branchPoint), terminalMainIdx)
  ELSE IF startBranch.found /\ terminalBranch.found
  THEN branchToBranch(line, main, isForward, startBranch, terminalBranch,
                      IndexOf(main, startBranch.branchPoint),
                      IndexOf(main, terminalBranch.branchPoint))
  ELSE NoPath

\* a branch is looked up only for a station that is not on the main line
branchUnlessMain(line, main, station) ==
  IF IndexOf(main, station) = 0 THEN findBranchInfo(line, station)
  ELSE NoBranch

directedPathOn(line, main, start, terminal, direction) ==
  directedPath(line, main, direction = line.directions.forward,
               IndexOf(main, start), IndexOf(main, terminal),
               branchUnlessMain(line, main, start),
               branchUnlessMain(line, main, terminal))

getDirectedCircularPath(line, start, terminal, direction) ==
  directedPathOn(line, normalizedStations(line.stations), start, terminal,
                 direction)

pathIncludes(path, dest) ==
  IF path = NoPath THEN FALSE ELSE SeqIncludes(path, dest)

\* a bug this model is checked against: the train's terminal never consulted
reachesAnyDestination(graph, line, start, dest, terminal, direction) ==
  IF start \notin graph.stations \/ dest \notin graph.stations THEN FALSE
  ELSE findPath(graph, start, dest) # NoPath

\* willTrainReachStation once the line is known and the names normalised
reachesOn(graph, line, start, dest, terminal, direction) ==
  IF start \notin graph.stations \/ dest \notin graph.stations THEN FALSE
  ELSE IF terminal \notin graph.stations THEN FALSE
  ELSE IF start = dest THEN TRUE
  ELSE IF dest = terminal THEN findPath(graph, start, dest) # NoPath
  ELSE IF line.type = "circular" /\ direction # ""
  THEN pathIncludes(getDirectedCircularPath(line, start, terminal, direction),
                    dest)
  ELSE pathIncludes(findPath(graph, start, terminal), dest)

\* direction is "" when the caller passes none
willTrainReachStation(lineId, startStation, destStation, trainTerminal, direction) ==
  IF lineId \notin LineIds THEN FALSE
  ELSE reachesOn(graphCache[lineId], SUBWAY_LINES[lineId],
                 normalizeStationName(startStation),
                 normalizeStationName(destStation),
                 normalizeStationName(trainTerminal), direction)

isStationKnown(lineId, stationName) ==
  IF lineId \notin LineIds THEN FALSE
  ELSE normalizeStationName(stationName) \in graphCache[lineId].stations


(***************************************************************************)
(* src/data/subway-stations.ts: direction from station order.              *)
(* Positions are 0-based as in the source; NoPos stands for "not in map".  *)
(***************************************************************************)
NoPos == [index |-> -1, isMainLine |-> FALSE, branchIndex |-> -1]

\* index (0-based) of the last occurrence of the name, the one map.set keeps
lastIndexOf(main, n) ==
  CHOOSE i \in 0..(Len(main) - 1) :
    /\ main[i + 1] = n
    /\ \A j \in (i + 1)..(Len(main) - 1) : main[j + 1] # n

mainPositions(main) ==
  [n \in { main[i] : i \in 1..Len(main) } |->
     [index |-> lastIndexOf(main, n), isMainLine |-> TRUE,
      branchIndex |-> -1]]

\* the map after branch b (1-based) is entered on top of map
withBranch(line, b, st, map) ==
  IF normalizeStationName(line.branches[b].branchPoint) \notin DOMAIN map
  THEN map
  ELSE [n \in { st[i] : i \in 1..Len(st) } \ DOMAIN map |->
          [index |-> Len(line.stations) + (b - 1) * 1000 + (IndexOf(st, n) - 1),
           isMainLine |-> FALSE, branchIndex |-> b - 1]] @@ map

RECURSIVE positionsUpTo(_, _)
\* the position map after the main line and branches 0 .. b-1 were entered
positionsUpTo(line, b) ==
  IF b = 0 THEN mainPositions(normalizedStations(line.stations))
  ELSE withBranch(line, b, normalizedStations(line.branches[b].stations),
                  positionsUpTo(line, b - 1))

buildPositionMap(line) == positionsUpTo(line, Len(line.branches))

\* a bug this model is checked against: a name the map lacks is taken for
\* the first station of the line
posOrFirst(posMap, name) ==
  IF name \in DOMAIN posMap THEN posMap[name]
  ELSE [index |-> 0, isMainLine |-> TRUE, branchIndex |-> -1]

posOrNone(posMap, name) ==
  IF name \in DOMAIN posMap THEN posMap[name] ELSE NoPos

\* index of the branch point on the main line, -1 when undefined
getBranchPointMainIndex(line, branchIdx, posMap) ==
  IF branchIdx < 0 \/ branchIdx >= Len(line.branches) THEN -1
  ELSE posOrNone(posMap,
                 normalizeStationName(line.branches[branchIdx + 1].branchPoint)
                ).index

sameBranch(startPos, endPos) ==
  /\ ~startPos.isMainLine /\ ~endPos.isMainLine
  /\ startPos.branchIndex = endPos.branchIndex

\* the shorter way round: clockwise (forward) wins a tie
shorterWay(line, fromIdx, toIdx, mainLen) ==
  IF (toIdx - fromIdx + mainLen) % mainLen
     <= mainLen - ((toIdx - fromIdx + mainLen) % mainLen)
  THEN line.directions.forward ELSE line.directions.backward

onward(line, startPos, endPos) ==
  IF endPos.index > startPos.index THEN line.directions.forward
  ELSE line.directions.backward

\* circular line, at least one end on a branch
circularViaBranch(line, startPos, endPos, startMainIdx, endMainIdx) ==
  IF startMainIdx = -1 \/ endMainIdx = -1 THEN NULL
  ELSE IF sameBranch(startPos, endPos) THEN onward(line, startPos, endPos)
  ELSE IF startMainIdx = endMainIdx
  THEN IF ~startPos.isMainLine THEN line.directions.backward
       ELSE line.directions.forward
  ELSE shorterWay(line, startMainIdx, endMainIdx, Len(line.stations))

getEffectiveMainIndex(line, posMap, pos) ==
  IF pos.isMainLine THEN pos.index
  ELSE getBranchPointMainIndex(line, pos.branchIndex, posMap)

branchPointPlusOne(bpIdx, pos) == IF bpIdx # -1 THEN bpIdx + 1 ELSE pos.index

getEffectiveIndex(line, posMap, pos) ==
  IF pos.isMainLine THEN pos.index
  ELSE branchPointPlusOne(
         getBranchPointMainIndex(line, pos.branchIndex, posMap), pos)

\* linear line, at least one end on a branch
linearViaBranch(line, startPos, endPos, effectiveStart, effectiveEnd) ==
  IF effectiveEnd > effectiveStart THEN line.directions.forward
  ELSE IF effectiveEnd < effectiveStart THEN line.directions.backward
  ELSE IF startPos.isMainLine /\ ~endPos.isMainLine
  THEN line.directions.forward
  ELSE IF ~startPos.isMainLine /\ endPos.isMainLine
  THEN line.directions.backward
  ELSE NULL

directionBetween(line, posMap, startPos, endPos) ==
  IF startPos = NoPos \/ endPos = NoPos THEN NULL
  ELSE IF startPos.index = endPos.index THEN NULL
  ELSE IF line.type = "circular"
  THEN IF startPos.isMainLine /\ endPos.isMainLine
       THEN shorterWay(line, startPos.index, endPos.index, Len(line.stations))
       ELSE circularViaBranch(line, startPos, endPos,
                              getEffectiveMainIndex(line, posMap, startPos),
                              getEffectiveMainIndex(line, posMap, endPos))
  ELSE IF startPos.isMainLine /\ endPos.isMainLine
  THEN onward(line, startPos, endPos)
  ELSE IF sameBranch(startPos, endPos) THEN onward(line, startPos, endPos)
  ELSE linearViaBranch(line, startPos, endPos,
                       getEffectiveIndex(line, posMap, startPos),
                       getEffectiveIndex(line, posMap, endPos))

directionOn(line, posMap, startName, endName) ==
  directionBetween(line, posMap, posOrNone(posMap, startName),
                   posOrNone(posMap, endName))

\* the updnLine value of the trip, or NULL when it cannot be told
determineSubwayDirection(subwayId, startStation, endStation) ==
  IF subwayId \notin LineIds THEN NULL
  ELSE directionOn(SUBWAY_LINES[subwayId],
                   buildPositionMap(SUBWAY_LINES[subwayId]),
                   normalizeStationName(startStation),
                   normalizeStationName(endStation))

(***************************************************************************)
(* src/services/realtime-transit.ts: the arrival aggregator.               *)
(* A subway feed item is [subwayId, updnLine, bstatnNm, barvlDt,           *)
(* subwayNm]; an ArrivalInfo is [lineName, arrivalTime, arrivalMessage,    *)
(* destination].  An absent optional string is NULL.                       *)
(***************************************************************************)
\* s.replace(/yeok$/, "")
stripYeok(s) == IF EndsWith(s, "yeok") THEN SubSeq(s, 1, Len(s) - 4) ELSE s

getSubwayLineName(subwayId) ==
  CASE subwayId = "1002" -> "2hoseon"
    [] subwayId = "1005" -> "5hoseon"
    [] subwayId = "1032" -> "GTX-A"
    [] OTHER -> "noseon " \o subwayId

\* the comparator of both sorts is negative: 0 first, then ascending
arrivesBefore(aTime, bTime) ==
  IF aTime = 0 /\ bTime = 0 THEN FALSE
  ELSE IF aTime = 0 THEN TRUE
  ELSE IF bTime = 0 THEN FALSE
  ELSE aTime < bTime

RECURSIVE insertStable(_, _, _)
\* x goes in front of the first index it sorts strictly before; before[i, j]
\* says the comparator is negative for elements i and j
insertStable(before, sorted, x) ==
  IF Len(sorted) = 0 THEN <<x>>
  ELSE IF before[x, Head(sorted)] THEN <<x>> \o sorted
  ELSE <<Head(sorted)>> \o insertStable(before, Tail(sorted), x)

RECURSIVE sortedIndices(_, _)
sortedIndices(before, n) ==
  IF n = 0 THEN << >>
  ELSE insertStable(before, sortedIndices(before, n - 1), n)

permuted(seq, order) == [k \in 1..Len(seq) |-> seq[order[k]]]

\* Array.prototype.sort: stable
stableSort(seq, before) == permuted(seq, sortedIndices(before, Len(seq)))

\* a bug this model is checked against: the fallback keeps either direction
directionUnchecked(item, dir) == TRUE

\* the direction-matching fallback of the filter
directionFallback(item, dir) ==
  IF dir # NULL THEN item.updnLine = dir ELSE FALSE

directionMatches(item, cleanName, cleanEnd) ==
  directionFallback(item,
                    determineSubwayDirection(item.subwayId, cleanName, cleanEnd))

passesWith(item, cleanName, cleanEnd, trainTerminal) ==
  IF trainTerminal = NULL THEN directionMatches(item, cleanName, cleanEnd)
  ELSE IF willTrainReachStation(item.subwayId, cleanName, cleanEnd,
                                trainTerminal, item.updnLine)
  THEN TRUE
  ELSE IF ~isStationKnown(item.subwayId, trainTerminal)
  THEN directionMatches(item, cleanName, cleanEnd)
  ELSE FALSE

\* the callback of items.filter
itemPassesDirection(item, cleanName, cleanEnd) ==
  passesWith(item, cleanName, cleanEnd, normalizeStationName(item.bstatnNm))

subwayItemToArrival(item) ==
  [lineName |-> IF item.subwayNm # NULL THEN item.subwayNm
                ELSE getSubwayLineName(item.subwayId),
   arrivalTime |-> parseIntOr0(item.barvlDt),
   arrivalMessage |-> item.arvlMsg2,
   destination |-> stripYeok(item.bstatnNm)]

byBarvlDt(a, b) ==
  arrivesBefore(parseIntOr0(a.barvlDt), parseIntOr0(b.barvlDt))

firstTwo(seq) == SubSeq(seq, 1, IF Len(seq) < 2 THEN Len(seq) ELSE 2)

\* sort by arrival time, keep two, map to ArrivalInfo
arrivalsOf(items) ==
  [i \in 1..Len(items) |-> subwayItemToArrival(items[i])]

sortSliceMap(filtered) ==
  arrivalsOf(firstTwo(stableSort(filtered,
                                 [i, j \in 1..Len(filtered) |->
                                    byBarvlDt(filtered[i], filtered[j])])))

keptOrNothing(filteredItems) ==
  IF Len(filteredItems) > 0 THEN sortSliceMap(filteredItems) ELSE << >>

directionFiltered(items, cleanName, cleanEnd) ==
  SelectSeq(items, LAMBDA item : itemPassesDirection(item, cleanName, cleanEnd))

filterSubwayArrivals(items, stationName, endStation) ==
  IF endStation # NULL /\ Len(items) > 0
  THEN keptOrNothing(directionFiltered(items, stripYeok(stationName),
                                       stripYeok(endStation)))
  ELSE sortSliceMap(items)

\* arrival.lineName.toLowerCase() === name.toLowerCase() for some name
matchesLineNames(arrival, lineNames) ==
  \E k \in 1..Len(lineNames) :
    toLowerCase(arrival.lineName) = toLowerCase(lineNames[k])

RECURSIVE capPerLine(_, _, _)
\* the perLineCount filter: at most 2 entries of one lineName
capPerLine(arrivals, k, kept) ==
  IF k > Len(arrivals) THEN kept
  ELSE LET a == arrivals[k]
           count == Cardinality({ i \in 1..Len(kept) :
                                    kept[i].lineName = a.lineName })
       IN capPerLine(arrivals, k + 1,
                     IF count >= 2 THEN kept ELSE Append(kept, a))

byArrivalTime(a, b) == arrivesBefore(a.arrivalTime, b.arrivalTime)

\* a bug this model is checked against: the cap applied to the unsorted list
capUnsorted(arrivals) == capPerLine(arrivals, 1, << >>)

sortAndCap(arrivals) ==
  capPerLine(stableSort(arrivals,
                        [i, j \in 1..Len(arrivals) |->
                           byArrivalTime(arrivals[i], arrivals[j])]),
             1, << >>)

\* the value of one leg query: null, or the entry handed to the calculator
NoEntry ==
  [found |-> FALSE, type |-> NULL, arrivals |-> << >>, startStation |-> NULL,
   endStation |-> NULL]

\* the lineNames filter of a leg query
matchedArrivals(leg, arrivals) ==
  IF Len(leg.lineNames) > 0
  THEN SelectSeq(arrivals, LAMBDA a : matchesLineNames(a, leg.lineNames))
  ELSE arrivals

entryOf(leg, matched) ==
  IF Len(matched) = 0 THEN NoEntry
  ELSE [found |-> TRUE, type |-> leg.type, arrivals |-> sortAndCap(matched),
        startStation |-> leg.startStation, endStation |-> leg.endStation]

\* the tail of a leg query once the source's arrivals are known
legEntry(leg, arrivals) ==
  IF Len(arrivals) = 0 THEN NoEntry
  ELSE entryOf(leg, matchedArrivals(leg, arrivals))

needsBusCall(leg) == leg.type = "bus" /\ leg.startStationId # NULL

needsSubwayCall(leg) == leg.type = "subway" /\ leg.startStation # NULL

\* one leg query of getAllTransitArrivals; feed is what its source returned:
\* getBusArrival's list for a bus leg, the station's raw items for a subway leg
legQuery(leg, feed) ==
  IF leg.type = "bus"
  THEN IF leg.startStationId = NULL THEN NoEntry ELSE legEntry(leg, feed)
  ELSE IF leg.startStation = NULL THEN NoEntry
       ELSE legEntry(leg, filterSubwayArrivals(feed, leg.startStation,
                                               leg.endStation))


(***************************************************************************)
(* Strings as JavaScript orders them (UTF-16 code units, ASCII here).      *)
(***************************************************************************)
AsciiOrder ==
  " ,-0123456789:ABCDEFGHIJKLMNOPQRSTUVWXYZabcdefghijklmnopqrstuvwxyz|"

charRank(c) ==
  CHOOSE i \in 1..Len(AsciiOrder) : SubSeq(AsciiOrder, i, i) = c

RECURSIVE strLess(_, _)
\* a < b
strLess(a, b) ==
  IF Len(b) = 0 THEN FALSE
  ELSE IF Len(a) = 0 THEN TRUE
  ELSE LET ca == charRank(SubSeq(a, 1, 1))
           cb == charRank(SubSeq(b, 1, 1))
       IN IF ca # cb THEN ca < cb
          ELSE strLess(SubSeq(a, 2, Len(a)), SubSeq(b, 2, Len(b)))

RECURSIVE join(_, _)
join(seq, sep) ==
  IF Len(seq) = 0 THEN ""
  ELSE IF Len(seq) = 1 THEN seq[1]
  ELSE seq[1] \o sep \o join(Tail(seq), sep)

\* String(n).padStart(2, "0")
pad2(n) == IF n < 10 THEN "0" \o ToString(n) ELSE ToString(n)

(***************************************************************************)
(* src/lib/time-utils.ts.  An instant is its number of minutes since       *)
(* 2026-11-04T00:00Z; Korea is UTC+9 without daylight saving.              *)
(***************************************************************************)
toKoreaDate(date) ==
  LET koreaMin == date + 9 * 60
  IN [day |-> 4 + (koreaMin \div 1440), hours |-> (koreaMin \div 60) % 24,
      minutes |-> koreaMin % 60]

getKoreaHour(date) == toKoreaDate(date).hours

\* a bug this model is checked against: the window opening an hour late
isOffHoursFromTwo(date) ==
  getKoreaHour(date) >= 2 /\ getKoreaHour(date) < 5

isOffHours(date) ==
  LET hour == getKoreaHour(date) IN hour >= 1 /\ hour < 5

getKoreaDateString(date) == "202611" \o pad2(toKoreaDate(date).day)

getKoreaTimeString(date) ==
  LET kst == toKoreaDate(date) IN pad2(kst.hours) \o pad2(kst.minutes)

\* new Date(ms).toISOString(), the instant given in seconds
toISOString(secs) ==
  "2026-11-" \o pad2(4 + (secs \div 86400)) \o "T"
  \o pad2((secs \div 3600) % 24) \o ":" \o pad2((secs \div 60) % 60) \o ":"
  \o pad2(secs % 60) \o ".000Z"

(***************************************************************************)
(* src/services/intercity-bus-service.ts: pure parts.                      *)
(***************************************************************************)
TERMINAL_SUFFIXES ==
  << "jonghapbeoseuteomineol", "jonghapteomineol", "sioebeoseuteomineol",
     "gosokbeoseuteomineol", "beoseuteomineol", "sioeteomineol",
     "gosokteomineol", "teomineol", "gongyongbeoseujeongnyujang", "sioe",
     "gosok" >>

normalizeTerminalName(name) ==
  LET normalized == RemoveSpaces(name)
      hits == { k \in 1..Len(TERMINAL_SUFFIXES) :
                  /\ EndsWith(normalized, TERMINAL_SUFFIXES[k])
                  /\ Len(normalized) > Len(TERMINAL_SUFFIXES[k]) }
  IN IF hits = {} THEN normalized
     ELSE LET k == CHOOSE k \in hits : \A m \in hits : k <= m
          IN SubSeq(normalized, 1,
                    Len(normalized) - Len(TERMINAL_SUFFIXES[k]))

\* terminalList.find(pred)?.terminalId, NULL when nothing matches
\* terminalList.find(...)?.terminalId, hits being the indices that match
findFirst(list, hits) ==
  IF hits = {} THEN NULL
  ELSE list[CHOOSE i \in hits : \A j \in hits : i <= j].terminalId

firstNonNull(t1, t2, t3, t4, t5) ==
  IF t1 # NULL THEN t1 ELSE IF t2 # NULL THEN t2
  ELSE IF t3 # NULL THEN t3 ELSE IF t4 # NULL THEN t4 ELSE t5

matchWith(list, name, cleanName) ==
  firstNonNull(
    findFirst(list, { i \in 1..Len(list) : list[i].terminalNm = name }),
    findFirst(list, { i \in 1..Len(list) :
                        Includes(list[i].terminalNm, name) }),
    findFirst(list, { i \in 1..Len(list) :
                        Includes(name, list[i].terminalNm) }),
    findFirst(list, { i \in 1..Len(list) :
                        list[i].normalizedNm = cleanName }),
    findFirst(list, { i \in 1..Len(list) :
                        \/ Includes(list[i].normalizedNm, cleanName)
                        \/ Includes(cleanName, list[i].normalizedNm) }))

\* the five-tier cascade of findTerminalByName over the in-memory list
matchTerminal(list, name) == matchWith(list, name, normalizeTerminalName(name))

\* existing.map(...) of loadTerminals
toTerminalData(t) ==
  [terminalId |-> t.terminalId, terminalNm |-> t.terminalNm,
   normalizedNm |-> normalizeTerminalName(t.terminalNm)]

\* one timetable item (depPlandTime as its 12-digit text) parsed
parseSchedule(depPlandTime) ==
  LET depHH == SubSeq(depPlandTime, 9, 10)
      depMM == SubSeq(depPlandTime, 11, 12)
  IN [depTime |-> depHH \o ":" \o depMM, depTimeRaw |-> depHH \o depMM]

byDepTimeRaw(parsed) ==
  stableSort(parsed,
             [i, j \in 1..Len(parsed) |->
                strLess(parsed[i].depTimeRaw, parsed[j].depTimeRaw)])

parseSchedules(items) ==
  byDepTimeRaw([i \in 1..Len(items) |-> parseSchedule(items[i])])

RECURSIVE upcomingFrom(_, _, _, _, _)
\* the loop of getUpcomingDepartures over schedules[k..]
upcomingFrom(schedules, k, date, count, upcoming) ==
  IF k > Len(schedules) THEN upcoming
  ELSE LET schedule == schedules[k]
           currentTimeStr == getKoreaTimeString(date)
           kst == toKoreaDate(date)
           currentMinutes == kst.hours * 60 + kst.minutes
           depMinutes == parseIntOr0(SubSeq(schedule.depTimeRaw, 1, 2)) * 60
                         + parseIntOr0(SubSeq(schedule.depTimeRaw, 3, 4))
           dep == [departureTime |-> schedule.depTime,
                   waitMinutes |-> depMinutes - currentMinutes]
       IN IF ~strLess(currentTimeStr, schedule.depTimeRaw)
          THEN upcomingFrom(schedules, k + 1, date, count, upcoming)
          ELSE IF Len(upcoming) + 1 >= count THEN Append(upcoming, dep)
          ELSE upcomingFrom(schedules, k + 1, date, count,
                            Append(upcoming, dep))

\* a bug this model is checked against: the clock is not consulted
firstDepartures(schedules, date, count) ==
  [k \in 1..(IF count < Len(schedules) THEN count ELSE Len(schedules)) |->
     [departureTime |-> schedules[k].depTime,
      waitMinutes |->
        parseIntOr0(SubSeq(schedules[k].depTimeRaw, 1, 2)) * 60
        + parseIntOr0(SubSeq(schedules[k].depTimeRaw, 3, 4))
        - (toKoreaDate(date).hours * 60 + toKoreaDate(date).minutes)]]

upcomingDepartures(schedules, date, count) ==
  upcomingFrom(schedules, 1, date, count, << >>)


(***************************************************************************)
(* ETA calculator (ETACalculator): pure parts.                             *)
(* A leg is [type, legSubType, startStation, endStation, startStationId,   *)
(* lineNames]; a route is [id, routeType, routeSource, totalTime, legs].   *)
(* A leg object is identified by its position in route.legs.               *)
(***************************************************************************)
AVERAGE_HEADWAY == [bus |-> 600, subway |-> 300]

\* a bug this model is checked against: only the explicit tag is read
isIntercityBySubTypeOnly(leg, routeSource) ==
  leg.legSubType = "intercity_bus" \/ leg.legSubType = "express_bus"

isIntercityBusLeg(leg, routeSource) ==
  IF leg.legSubType = "intercity_bus" \/ leg.legSubType = "express_bus"
  THEN TRUE
  ELSE routeSource = "inter_local" /\ leg.type = "bus"
       /\ leg.startStationId = NULL

buildCityLegKey(leg) ==
  IF leg.type = "bus"
  THEN "bus:" \o leg.startStationId \o ":"
       \o join(stableSort(leg.lineNames,
                       [i, j \in 1..Len(leg.lineNames) |->
                          strLess(leg.lineNames[i], leg.lineNames[j])]), ",")
  ELSE IF leg.type = "subway"
  THEN "subway:" \o leg.startStation \o "|" \o leg.endStation
  ELSE ""

buildIntercityLegKey(leg) == leg.startStation \o "|" \o leg.endStation

isTransit(leg) == leg.type = "bus" \/ leg.type = "subway"

\* positions in route.legs of the legs kept by a filter, in order
transitPositions(route) ==
  Ascending({ k \in 1..Len(route.legs) : isTransit(route.legs[k]) })

cityPositions(route) ==
  Ascending({ k \in 1..Len(route.legs) :
                /\ isTransit(route.legs[k])
                /\ ~isIntercityBusLeg(route.legs[k], route.routeSource) })

intercityPositions(route) ==
  Ascending({ k \in 1..Len(route.legs) :
                /\ isTransit(route.legs[k])
                /\ isIntercityBusLeg(route.legs[k], route.routeSource) })

offHoursETA(route) ==
  [estimatedArrival |-> "", waitTime |-> 0, travelTime |-> route.totalTime,
   isEstimate |-> TRUE, routeId |-> route.id, routeType |-> route.routeType,
   routeSource |-> route.routeSource, legArrivals |-> << >>]

\* intercityResults.find(r => r.leg === leg)?.departures, << >> when absent
departuresOf(intercityResults, pos) ==
  LET hits == { i \in 1..Len(intercityResults) :
                  intercityResults[i].leg = pos }
  IN IF hits = {} THEN << >>
     ELSE intercityResults[CHOOSE i \in hits :
                             \A j \in hits : i <= j].departures

\* allArrivals.find(a => a.startStation === leg.startStation)
realtimeDataOf(allArrivals, leg) ==
  LET hits == { i \in 1..Len(allArrivals) :
                  allArrivals[i].startStation = leg.startStation }
  IN IF hits = {} THEN NoEntry
     ELSE allArrivals[CHOOSE i \in hits : \A j \in hits : i <= j]

\* leg.lineNames[0] || "시외버스"
intercityLineName(leg) ==
  IF Len(leg.lineNames) > 0 /\ leg.lineNames[1] # "" THEN leg.lineNames[1]
  ELSE "sioebeoseu"

\* The entries one pass of the leg loop pushes.  emittedFor records the leg
\* whose pass pushed the entry; it is not a field of the program's entry.
scheduleEntries(leg, pos, departures) ==
  [i \in 1..Len(departures) |->
     [type |-> "bus", lineName |-> intercityLineName(leg),
      arrivalMessage |->
        departures[i].departureTime \o " chulbal ("
        \o ToString(departures[i].waitMinutes) \o "bun hu)",
      arrivalTime |-> departures[i].waitMinutes * 60,
      startStation |-> leg.startStation, endStation |-> leg.endStation,
      destination |-> NULL, isSchedule |-> TRUE, emittedFor |-> pos]]

noScheduleEntry(leg, pos) ==
  [type |-> "bus", lineName |-> intercityLineName(leg),
   arrivalMessage |-> "baecha jeongbo eopseum",
   arrivalTime |-> AVERAGE_HEADWAY.bus,
   startStation |-> leg.startStation, endStation |-> leg.endStation,
   destination |-> NULL, isSchedule |-> TRUE, emittedFor |-> pos]

intercityEntries(leg, pos, departures) ==
  IF Len(departures) > 0 THEN scheduleEntries(leg, pos, departures)
  ELSE << noScheduleEntry(leg, pos) >>

liveEntries(realtimeData, pos) ==
  [i \in 1..Len(realtimeData.arrivals) |->
     [type |-> realtimeData.type,
      lineName |-> realtimeData.arrivals[i].lineName,
      arrivalMessage |-> realtimeData.arrivals[i].arrivalMessage,
      arrivalTime |-> realtimeData.arrivals[i].arrivalTime,
      startStation |-> realtimeData.startStation,
      endStation |-> realtimeData.endStation,
      destination |-> realtimeData.arrivals[i].destination,
      isSchedule |-> FALSE, emittedFor |-> pos]]

\* a bug this model is checked against: the else branch pushing nothing
noPlaceholderEntries(leg, pos) == << >>

placeholderEntries(leg, pos) ==
  [i \in 1..Len(leg.lineNames) |->
     [type |-> leg.type, lineName |-> leg.lineNames[i],
      arrivalMessage |-> "silsigan jeongbo eopseum",
      arrivalTime |-> AVERAGE_HEADWAY[leg.type],
      startStation |-> leg.startStation, endStation |-> leg.endStation,
      destination |-> NULL, isSchedule |-> FALSE, emittedFor |-> pos]]

cityEntries(leg, pos, realtimeData) ==
  IF realtimeData.found /\ Len(realtimeData.arrivals) > 0
  THEN liveEntries(realtimeData, pos)
  ELSE placeholderEntries(leg, pos)

legEntries(route, pos, allArrivals, intercityResults) ==
  IF isIntercityBusLeg(route.legs[pos], route.routeSource)
  THEN intercityEntries(route.legs[pos], pos,
                        departuresOf(intercityResults, pos))
  ELSE cityEntries(route.legs[pos], pos,
                   realtimeDataOf(allArrivals, route.legs[pos]))

RECURSIVE pushLegs(_, _, _, _, _)
\* the for loop over transitLegs from its k-th leg on
pushLegs(route, order, k, allArrivals, intercityResults) ==
  IF k > Len(order) THEN << >>
  ELSE legEntries(route, order[k], allArrivals, intercityResults)
       \o pushLegs(route, order, k + 1, allArrivals, intercityResults)

\* a bug this model is checked against: the loop walking the legs backwards
buildLegArrivalsBackwards(route, allArrivals, intercityResults) ==
  pushLegs(route, Reverse(transitPositions(route)), 1, allArrivals,
           intercityResults)

buildLegArrivals(route, allArrivals, intercityResults) ==
  pushLegs(route, transitPositions(route), 1, allArrivals, intercityResults)

\* first leg intercity: its first upcoming departure, or the bus headway
scheduleWait(firstDeps) ==
  IF Len(firstDeps) > 0
  THEN [waitTime |-> firstDeps[1].waitMinutes * 60, isEstimate |-> FALSE]
  ELSE [waitTime |-> AVERAGE_HEADWAY.bus, isEstimate |-> TRUE]

\* a bug this model is checked against: the last entry read instead of [0]
liveWaitOfLast(allArrivals) ==
  [waitTime |-> allArrivals[Len(allArrivals)].arrivals[1].arrivalTime,
   isEstimate |-> FALSE]

\* allArrivals[0].arrivals[0]?.arrivalTime ?? 0
liveWait(allArrivals) ==
  [waitTime |-> IF Len(allArrivals[1].arrivals) > 0
                THEN allArrivals[1].arrivals[1].arrivalTime ELSE 0,
   isEstimate |-> FALSE]

\* a bug this model is checked against: the fallback reported as a reading
headwayWaitAsReading(route, order) ==
  [waitTime |-> IF Len(order) > 0
                THEN AVERAGE_HEADWAY[route.legs[order[1]].type]
                ELSE AVERAGE_HEADWAY.bus,
   isEstimate |-> FALSE]

headwayWait(route, order) ==
  [waitTime |-> IF Len(order) > 0
                THEN AVERAGE_HEADWAY[route.legs[order[1]].type]
                ELSE AVERAGE_HEADWAY.bus,
   isEstimate |-> TRUE]

waitFor(route, order, allArrivals, intercityResults) ==
  IF Len(order) > 0
     /\ isIntercityBusLeg(route.legs[order[1]], route.routeSource)
  THEN scheduleWait(departuresOf(intercityResults, order[1]))
  ELSE IF Len(allArrivals) > 0 THEN liveWait(allArrivals)
  ELSE headwayWait(route, order)

\* [waitTime, isEstimate] of buildETAResult
decideWait(route, allArrivals, intercityResults) ==
  waitFor(route, transitPositions(route), allArrivals, intercityResults)

etaOf(route, date, w, legArrivals) ==
  [estimatedArrival |->
     toISOString(date * 60 + w.waitTime + route.totalTime * 60),
   waitTime |-> w.waitTime, travelTime |-> route.totalTime,
   isEstimate |-> w.isEstimate, routeId |-> route.id,
   routeType |-> route.routeType, routeSource |-> route.routeSource,
   legArrivals |-> legArrivals]

buildETAResult(route, date, allArrivals, intercityResults) ==
  etaOf(route, date, decideWait(route, allArrivals, intercityResults),
        buildLegArrivals(route, allArrivals, intercityResults))

\* toLocaleString("en-US", {hour: "numeric", hour12: false}) as a number:
\* the midnight hour is printed "0" or "24" depending on the runtime's ICU
localeHours(date) ==
  IF getKoreaHour(date) = 0 THEN {0, 24} ELSE {getKoreaHour(date)}

\* the dashboard order of calculateAllETAs: commute first before 13h KST
routePriority(routeType, kstHour) ==
  LET isCommuteTime == kstHour < 13
  IN IF routeType = "other" THEN 1
     ELSE IF routeType = "commute" THEN (IF isCommuteTime THEN 0 ELSE 2)
     ELSE IF routeType = "return" THEN (IF isCommuteTime THEN 2 ELSE 0)
     ELSE 1

sortByPriority(results, kstHour) ==
  stableSort(results,
             [i, j \in 1..Len(results) |->
                routePriority(results[i].routeType, kstHour)
                < routePriority(results[j].routeType, kstHour)])


(***************************************************************************)
(* Inputs.                                                                 *)
(***************************************************************************)
\* sequences over S of length 0 .. n
SeqsUpTo(S, n) == UNION { [1..k -> S] : k \in 0..n }

BusLeg ==
  [type |-> "bus", legSubType |-> NULL, startStation |-> "suseoyeok",
   endStation |-> "segok", startStationId |-> "23-101",
   lineNames |-> <<"X", "Y">>]

\* a bus leg saved without a stop id: a city leg of an in_local route, an
\* intercity leg of an inter_local one
BusLegNoStopId ==
  [type |-> "bus", legSubType |-> NULL, startStation |-> "dongseoul",
   endStation |-> "incheon", startStationId |-> NULL, lineNames |-> <<"Z">>]

SubwayLeg ==
  [type |-> "subway", legSubType |-> NULL, startStation |-> "suseoyeok",
   endStation |-> "dongtanyeok", startStationId |-> NULL,
   lineNames |-> <<"GTX-A">>]

IntercityLeg ==
  [type |-> "bus", legSubType |-> "intercity_bus",
   startStation |-> "dongseoul", endStation |-> "incheon",
   startStationId |-> NULL, lineNames |-> << >>]

WalkLeg ==
  [type |-> "walk", legSubType |-> NULL, startStation |-> NULL,
   endStation |-> NULL, startStationId |-> NULL, lineNames |-> << >>]

LegPool == {BusLeg, BusLegNoStopId, SubwayLeg, IntercityLeg, WalkLeg}

RouteSources == {"in_local", "inter_local"}

RouteTypes == {"commute", "return"}

\* saved routes of 1 .. n legs
RoutesOf(n, types) ==
  { [id |-> 1, routeType |-> t, routeSource |-> src, totalTime |-> 30,
     legs |-> legs] :
      t \in types, src \in RouteSources,
      legs \in SeqsUpTo(LegPool, n) \ {<< >>} }

\* instants: 00:59, 01:00, 04:59, 05:00 and 13:00 KST of 2026-11-05
Instants == {959, 960, 1199, 1200}

FeedTimes == {0, 60}

\* what getBusArrival can hand back for stop 23-101
BusArrivals ==
  { [lineName |-> n, arrivalTime |-> t, arrivalMessage |-> "got dochak",
     destination |-> NULL] : n \in {"X", "Q"}, t \in FeedTimes }

\* realtimeArrivalList items of station Suseo
SubwayItems ==
  { [subwayId |-> "1032", updnLine |-> d.updnLine, bstatnNm |-> d.bstatnNm,
     barvlDt |-> ToString(t), subwayNm |-> NULL, arvlMsg2 |-> "jinip"] :
      d \in { [updnLine |-> "hahaeng", bstatnNm |-> "dongtan"],
              [updnLine |-> "sanghaeng", bstatnNm |-> "unjeongjungang"],
              [updnLine |-> "hahaeng", bstatnNm |-> NULL] },
      t \in FeedTimes }

\* depPlandTime values of timetable items
DepTimes == {"202611050000", "202611050530"}

\* the terminal rows the database or the terminal-list API holds
Directory ==
  << [terminalId |-> "NAEK010", terminalNm |-> "dongseouljonghapteomineol"],
     [terminalId |-> "NAEK100", terminalNm |-> "incheonteomineol"] >>


(***************************************************************************)
(* State.                                                                  *)
(***************************************************************************)
VARIABLES
  pc,                \* "idle" | "fetching" | "done" | "rejected"
  mode,              \* "single" (calculateETA) | "batch" (calculateAllETAs)
  routes,            \* the routes of the request in hand
  now,               \* new Date() of the request
  kstHourShown,      \* the KST hour as the dashboard sort reads it
  calls,             \* upstream calls issued by the request in hand
  aggCalls,          \* getAllTransitArrivals invocations in flight
  tasks,             \* getUpcomingDepartures invocations in flight
  etaResults,        \* the value the request resolved with
  syncState,         \* module state of intercity-bus-service.ts
  syncPromise,       \* "none" | "pending" | "settled"
  terminalList,
  terminalNameCache,
  scheduleCache,
  aggLeg, aggFeed,   \* one leg query of the aggregator: leg, source data
  aggOut,            \* and its value
  query, reaches,    \* one willTrainReachStation call and its value
  dataGoKrKey,       \* process.env.DATA_GO_KR_API_KEY || ""
  seoulDataKey,      \* process.env.SEOUL_OPENDATA_API_KEY || ""
  clock,             \* Date.now(), in ms
  busArrivalCache,   \* _busArrivalCache: key -> [data, expiresAt], with
  subwayRawCache,    \* _subwayRawCache:  the Date.now() of the writer
  gyeonggiStationCache,  \* mobileNo -> stationId, of the service instance
  invocations,       \* getAllTransitArrivals calls made on the instance
  requests,          \* upstream requests issued: request -> how many
  retryPc,           \* fetchWithRetry: "idle" | "fetching" | "sleeping" |
                     \* "returned" | "thrown"
  attempt,           \* its loop counter
  lastError,         \* its lastError, NULL for null
  retryLog,          \* the fetches and timers of the call, in order
  maxRequests,       \* RateLimiter: constructor arguments
  windowMs,
  timestamps,        \* RateLimiter.timestamps: key -> times recorded
  granted,           \* key -> times at which tryRequest returned true
  retryAnswer,       \* the last getRetryAfterMs call: key, value, and
                     \* canMakeRequest at that instant
  callers,           \* ensureTerminalsLoaded callers: where each one is
  loadPromises,      \* the loadTerminals promises made: id -> state
  savedRoute,        \* the rows of prisma.savedRoute, oldest first
  saveCalls,         \* RouteService.saveRoute calls: where each one is
  upstream,          \* what the sources answer while a dashboard is built
  singleResults      \* calculateETA of each of its routes on those answers

transitVars ==
  << dataGoKrKey, seoulDataKey, clock, busArrivalCache, subwayRawCache,
     gyeonggiStationCache, invocations, requests >>

\* the components outside the ETA computation
parserVars == << retryPc, attempt, lastError, retryLog >>

limiterVars == << maxRequests, windowMs, timestamps, granted, retryAnswer >>

loaderVars == << callers, loadPromises >>

storeVars == << savedRoute, saveCalls >>

dashboardVars == << upstream, singleResults >>

otherVars ==
  << parserVars, limiterVars, loaderVars, storeVars, dashboardVars >>

\* everything but the clock and the state of one component
computationVars ==
  << pc, mode, routes, now, kstHourShown, calls, aggCalls, tasks, etaResults,
     syncState, syncPromise, terminalList, terminalNameCache, scheduleCache,
     aggLeg, aggFeed, aggOut, query, reaches, dataGoKrKey, seoulDataKey,
     busArrivalCache, subwayRawCache, gyeonggiStationCache, invocations,
     requests >>

exceptParser ==
  << computationVars, clock, limiterVars, loaderVars, storeVars,
     dashboardVars >>

exceptLimiter ==
  << computationVars, parserVars, loaderVars, storeVars, dashboardVars >>

exceptStore ==
  << computationVars, clock, parserVars, limiterVars, loaderVars,
     dashboardVars >>

exceptLoader ==
  << pc, mode, routes, now, kstHourShown, calls, aggCalls, tasks, etaResults,
     terminalNameCache, scheduleCache, aggLeg, aggFeed, aggOut, query,
     reaches, transitVars, parserVars, limiterVars, storeVars,
     dashboardVars >>

vars ==
  << pc, mode, routes, now, kstHourShown, calls, aggCalls, tasks, etaResults,
     syncState, syncPromise, terminalList, terminalNameCache, scheduleCache,
     aggLeg, aggFeed, aggOut, query, reaches, transitVars, otherVars >>

requestVars ==
  << pc, mode, routes, now, kstHourShown, calls, aggCalls, tasks, etaResults >>

moduleVars ==
  << syncState, syncPromise, terminalList, terminalNameCache, scheduleCache >>

NoQuery ==
  [lineId |-> "", startStation |-> "", destStation |-> "",
   trainTerminal |-> "", direction |-> ""]

\* a leg query that has not returned, a graph query that has not been made
NoOutput == [done |-> FALSE, entry |-> NoEntry]

NoAnswer == [called |-> FALSE, value |-> FALSE]

\* no request in hand, the module state of intercity-bus-service.ts empty
IdleCalculator ==
  /\ pc = "idle" /\ mode = "single" /\ routes = << >> /\ now = 0
  /\ kstHourShown = 0 /\ calls = 0 /\ aggCalls = << >> /\ tasks = << >>
  /\ etaResults = << >>
  /\ syncState = "idle" /\ syncPromise = "none" /\ terminalList = << >>
  /\ terminalNameCache = << >> /\ scheduleCache = << >>

\* no fetchWithRetry call made
IdleParser ==
  /\ retryPc = "idle" /\ attempt = 0 /\ lastError = NULL /\ retryLog = << >>

NoRetryAnswer == [key |-> NULL, value |-> 0, can |-> TRUE]

\* the limiter of the route parser, 5 requests a minute, unused
IdleLimiter ==
  /\ maxRequests = 5 /\ windowMs = 60000
  /\ timestamps = << >> /\ granted = << >> /\ retryAnswer = NoRetryAnswer

\* nobody inside ensureTerminalsLoaded, no loadTerminals promise made
IdleLoader == callers = << >> /\ loadPromises = << >>

\* no saved route, no saveRoute call made
IdleStore == savedRoute = << >> /\ saveCalls = << >>

NoUpstream == [bus |-> << >>, subway |-> << >>, timetable |-> << >>]

\* no dashboard compared with its routes one by one
IdleDashboard == upstream = NoUpstream /\ singleResults = << >>

\* the components outside the ETA computation untouched
IdleOthers ==
  IdleParser /\ IdleLimiter /\ IdleLoader /\ IdleStore /\ IdleDashboard

\* a service instance just constructed, the module caches empty
IdleService ==
  /\ clock = 0 /\ busArrivalCache = << >> /\ subwayRawCache = << >>
  /\ gyeonggiStationCache = << >> /\ invocations = << >>
  /\ requests = << >>

Idle ==
  /\ IdleCalculator
  /\ IdleOthers
  /\ IdleService /\ dataGoKrKey = "key" /\ seoulDataKey = "key"

Init ==
  /\ Idle
  /\ aggLeg = WalkLeg /\ aggFeed = << >> /\ aggOut = NoOutput
  /\ query = NoQuery /\ reaches = NoAnswer

(***************************************************************************)
(* getAllTransitArrivals as a process: the raw subway fetches run first,   *)
(* one per distinct start station; the bus fetches start when all of them  *)
(* have settled.                                                           *)
(***************************************************************************)
subwayStationsOf(legs) ==
  { legs[i].startStation : i \in { j \in 1..Len(legs) :
                                     needsSubwayCall(legs[j]) } }

newAggCall(key, legs) ==
  LET stations == subwayStationsOf(legs)
  IN [key |-> key, legs |-> legs,
      subway |-> [st \in stations |-> [done |-> FALSE, items |-> << >>]],
      bus |-> [i \in 1..Len(legs) |->
                 [st |-> IF ~needsBusCall(legs[i]) THEN "none"
                         ELSE IF stations = {} THEN "pending" ELSE "waiting",
                  list |-> << >>]]]

\* fetches a call has in flight
inFlight(call) ==
  Cardinality({ st \in DOMAIN call.subway : ~call.subway[st].done })
  + Cardinality({ i \in DOMAIN call.bus : call.bus[i].st = "pending" })

callDone(call) ==
  /\ \A st \in DOMAIN call.subway : call.subway[st].done
  /\ \A i \in DOMAIN call.bus : call.bus[i].st \in {"none", "done"}

\* what the leg's source returned to its query
feedOf(call, i) ==
  IF call.legs[i].type = "bus" THEN call.bus[i].list
  ELSE IF needsSubwayCall(call.legs[i])
       THEN call.subway[call.legs[i].startStation].items
       ELSE << >>

\* results.filter(r => r !== null), in leg order
callResults(call) ==
  SelectSeq([i \in 1..Len(call.legs) |-> legQuery(call.legs[i], feedOf(call, i))],
            LAMBDA r : r.found)

(***************************************************************************)
(* getUpcomingDepartures as a process: two terminal lookups, then the      *)
(* timetable.  A lookup is [role, id]: resolved with an id (NULL for no    *)
(* terminal), or loading the directory, or waiting on the load in flight.  *)
(***************************************************************************)
scheduleKey(task, date) ==
  task.dep.id \o ":" \o task.arr.id \o ":" \o getKoreaDateString(date)

scheduleHit(task, sc, date) ==
  /\ scheduleKey(task, date) \in DOMAIN sc
  /\ sc[scheduleKey(task, date)].dateKey = getKoreaDateString(date)

\* a task whose lookups are both resolved goes on to getSchedules
advance(task, sc, date) ==
  IF task.phase # "lookup" \/ task.dep.role # "resolved"
     \/ task.arr.role # "resolved"
  THEN task
  ELSE IF task.dep.id = NULL \/ task.arr.id = NULL
  THEN [task EXCEPT !.phase = "done"]
  ELSE IF scheduleHit(task, sc, date)
  THEN [task EXCEPT !.phase = "done",
                    !.departures =
                      upcomingDepartures(sc[scheduleKey(task, date)].schedules,
                                         date, 2)]
  ELSE [task EXCEPT !.phase = "sched"]

\* the cache after the getSchedules calls of a step: a miss drops stale days
afterScheduleMisses(sc, before, after, date) ==
  IF \E t \in 1..Len(after) : before[t].phase = "lookup" /\ after[t].phase = "sched"
  THEN [k \in { k \in DOMAIN sc : sc[k].dateKey = getKoreaDateString(date) }
          |-> sc[k]]
  ELSE sc

schedFetches(before, after) ==
  Cardinality({ t \in 1..Len(after) :
                  before[t].phase = "lookup" /\ after[t].phase = "sched" })

\* the lookups of the tasks in call order: task 1 start, task 1 end, ...
lookupName(specs, n) ==
  IF n % 2 = 1 THEN specs[(n + 1) \div 2].start ELSE specs[n \div 2].end

isMiss(name, cache) == name # "" /\ name \notin DOMAIN cache

\* the synchronous part of the lookups of a request:
\* specs is the sequence of [key, leg, start, end]
startLookups(specs, cache, state, list) ==
  LET ready == state = "done" /\ Len(list) > 0
      misses == { n \in 1..(2 * Len(specs)) :
                    isMiss(lookupName(specs, n), cache) }
      loader == IF misses = {} THEN 0
                ELSE CHOOSE n \in misses : \A m \in misses : n <= m
      lookup(n) ==
        LET name == lookupName(specs, n)
        IN IF name = "" THEN [role |-> "resolved", id |-> NULL]
           ELSE IF name \in DOMAIN cache
           THEN [role |-> "resolved", id |-> cache[name]]
           ELSE IF ready
           THEN [role |-> "resolved", id |-> matchTerminal(list, name)]
           ELSE IF n = loader THEN [role |-> "loader", id |-> NULL]
           ELSE [role |-> "waiter", id |-> NULL]
      missNames == { lookupName(specs, n) : n \in misses }
  IN [tasks |-> [t \in 1..Len(specs) |->
                   [key |-> specs[t].key, leg |-> specs[t].leg,
                    start |-> specs[t].start, end |-> specs[t].end,
                    dep |-> lookup(2 * t - 1), arr |-> lookup(2 * t),
                    phase |-> "lookup", departures |-> << >>]],
      cache |-> IF ready
                THEN [n \in DOMAIN cache \cup missNames |->
                        IF n \in DOMAIN cache THEN cache[n]
                        ELSE matchTerminal(list, n)]
                ELSE cache,
      loads |-> ~ready /\ misses # {}]

allSettled(newCalls, newTasks) ==
  /\ \A c \in 1..Len(newCalls) : callDone(newCalls[c])
  /\ \A t \in 1..Len(newTasks) : newTasks[t].phase = "done"


(***************************************************************************)
(* The value a request resolves with once every fetch has settled.         *)
(***************************************************************************)
\* calculateETA: buildETAResult over the one aggregator call and the tasks
singleResult(route, date, newCalls, newTasks) ==
  buildETAResult(route, date,
                 IF Len(newCalls) = 0 THEN << >> ELSE callResults(newCalls[1]),
                 [t \in 1..Len(newTasks) |->
                    [leg |-> newTasks[t].leg,
                     departures |-> newTasks[t].departures]])

\* cityCache.get(key): results[0] ?? null of the call made for the key
cityCacheGet(newCalls, key) ==
  LET hits == { c \in 1..Len(newCalls) : newCalls[c].key = key }
      res == callResults(newCalls[CHOOSE c \in hits : TRUE])
  IN IF hits = {} \/ Len(res) = 0 THEN NoEntry ELSE res[1]

\* intercityCache.get(key) ?? []
intercityCacheGet(newTasks, key) ==
  LET hits == { t \in 1..Len(newTasks) : newTasks[t].key = key }
  IN IF hits = {} THEN << >>
     ELSE newTasks[CHOOSE t \in hits : TRUE].departures

\* step 3 of calculateAllETAs for one route
batchResult(route, date, newCalls, newTasks) ==
  LET cpos == cityPositions(route)
      ipos == intercityPositions(route)
  IN buildETAResult(
       route, date,
       SelectSeq([k \in 1..Len(cpos) |->
                    cityCacheGet(newCalls,
                                 buildCityLegKey(route.legs[cpos[k]]))],
                 LAMBDA e : e.found),
       [k \in 1..Len(ipos) |->
          [leg |-> ipos[k],
           departures |->
             intercityCacheGet(newTasks,
                               buildIntercityLegKey(route.legs[ipos[k]]))]])

resultsOf(m, rs, date, hour, newCalls, newTasks) ==
  IF m = "single" THEN << singleResult(rs[1], date, newCalls, newTasks) >>
  ELSE sortByPriority([r \in 1..Len(rs) |->
                         batchResult(rs[r], date, newCalls, newTasks)], hour)

\* the request resolves in the step that settles its last fetch
Conclude(m, rs, date, hour, newCalls, newTasks) ==
  IF allSettled(newCalls, newTasks)
  THEN /\ pc' = "done"
       /\ etaResults' = resultsOf(m, rs, date, hour, newCalls, newTasks)
  ELSE /\ pc' = "fetching"
       /\ etaResults' = << >>

\* the synchronous part of an Active-hours request: every city call and
\* every lookup is started before anything settles
Begin(m, rs, date, hour, newCalls, specs) ==
  LET lk == startLookups(specs, terminalNameCache, syncState, terminalList)
      newTasks == [t \in 1..Len(specs) |->
                     advance(lk.tasks[t], scheduleCache, date)]
      issued == [c \in 1..Len(newCalls) |-> inFlight(newCalls[c])]
      sum[c \in 0..Len(newCalls)] == IF c = 0 THEN 0 ELSE sum[c - 1] + issued[c]
  IN /\ aggCalls' = newCalls
     /\ tasks' = newTasks
     /\ terminalNameCache' = lk.cache
     /\ syncState' = IF lk.loads THEN "syncing" ELSE syncState
     /\ syncPromise' = IF lk.loads THEN "pending" ELSE syncPromise
     /\ scheduleCache' =
          afterScheduleMisses(scheduleCache, lk.tasks, newTasks, date)
     /\ calls' = sum[Len(newCalls)] + (IF lk.loads THEN 1 ELSE 0)
                 + schedFetches(lk.tasks, newTasks)
     /\ UNCHANGED terminalList
     /\ Conclude(m, rs, date, hour, newCalls, newTasks)

legsAt(route, positions) ==
  [k \in 1..Len(positions) |-> route.legs[positions[k]]]

(***************************************************************************)
(* calculateETA(route)                                                     *)
(***************************************************************************)
CalculateETA(route, date) ==
  /\ pc = "idle"
  /\ mode' = "single" /\ routes' = <<route>> /\ now' = date
  /\ kstHourShown' = 0
  /\ UNCHANGED << aggLeg, aggFeed, aggOut, query, reaches, transitVars,
                  otherVars >>
  /\ IF isOffHours(date)
     THEN /\ pc' = "done"
          /\ etaResults' = << offHoursETA(route) >>
          /\ calls' = 0 /\ aggCalls' = << >> /\ tasks' = << >>
          /\ UNCHANGED moduleVars
     ELSE LET cityLegs == legsAt(route, cityPositions(route))
              ipos == intercityPositions(route)
          IN Begin("single", <<route>>, date, 0,
                   IF Len(cityLegs) > 0 THEN << newAggCall("", cityLegs) >>
                   ELSE << >>,
                   [k \in 1..Len(ipos) |->
                      [key |-> "", leg |-> ipos[k],
                       start |-> route.legs[ipos[k]].startStation,
                       end |-> route.legs[ipos[k]].endStation]])

(***************************************************************************)
(* calculateAllETAs(userId), rs being what RouteService.getRoutes returned *)
(***************************************************************************)
RECURSIVE allTransitLegs(_, _)
\* the legs the collecting loop visits, with the route they belong to
allTransitLegs(rs, r) ==
  IF r > Len(rs) THEN << >>
  ELSE [k \in 1..Len(transitPositions(rs[r])) |->
          [leg |-> rs[r].legs[transitPositions(rs[r])[k]],
           intercity |->
             isIntercityBusLeg(rs[r].legs[transitPositions(rs[r])[k]],
                               rs[r].routeSource)]]
       \o allTransitLegs(rs, r + 1)

\* a bug this model is checked against: every city leg is queried, a key
\* seen before included
cityLegsUndeduplicated(rs) ==
  LET all == SelectSeq(allTransitLegs(rs, 1), LAMBDA e : ~e.intercity)
  IN [k \in 1..Len(all) |-> all[k].leg]

\* [...cityLegMap.entries()]: the first leg of each key, in insertion order
cityLegMap(rs) ==
  LET all == allTransitLegs(rs, 1)
      firsts == { i \in 1..Len(all) :
                    /\ ~all[i].intercity
                    /\ \A j \in 1..(i - 1) :
                         all[j].intercity
                         \/ buildCityLegKey(all[j].leg)
                            # buildCityLegKey(all[i].leg) }
      order == Ascending(firsts)
  IN [k \in 1..Len(order) |-> all[order[k]].leg]

intercityLegMap(rs) ==
  LET all == allTransitLegs(rs, 1)
      firsts == { i \in 1..Len(all) :
                    /\ all[i].intercity
                    /\ \A j \in 1..(i - 1) :
                         ~all[j].intercity
                         \/ buildIntercityLegKey(all[j].leg)
                            # buildIntercityLegKey(all[i].leg) }
      order == Ascending(firsts)
  IN [k \in 1..Len(order) |-> all[order[k]].leg]

CalculateAllETAs(rs, date, hour) ==
  /\ pc = "idle"
  /\ mode' = "batch" /\ routes' = rs /\ now' = date /\ kstHourShown' = hour
  /\ UNCHANGED << aggLeg, aggFeed, aggOut, query, reaches, transitVars,
                  otherVars >>
  /\ IF isOffHours(date)
     THEN /\ pc' = "done"
          /\ etaResults' =
               sortByPriority([r \in 1..Len(rs) |-> offHoursETA(rs[r])], hour)
          /\ calls' = 0 /\ aggCalls' = << >> /\ tasks' = << >>
          /\ UNCHANGED moduleVars
     ELSE LET cityLegs == cityLegMap(rs)
              icLegs == intercityLegMap(rs)
          IN Begin("batch", rs, date, hour,
                   [k \in 1..Len(cityLegs) |->
                      newAggCall(buildCityLegKey(cityLegs[k]),
                                 << cityLegs[k] >>)],
                   [k \in 1..Len(icLegs) |->
                      [key |-> buildIntercityLegKey(icLegs[k]), leg |-> 0,
                       start |-> icLegs[k].startStation,
                       end |-> icLegs[k].endStation]])


(***************************************************************************)
(* Upstream completions.  A source that failed (timeout, non-2xx, bad      *)
(* payload) hands its caller the empty list; only the timetable fetch      *)
(* tells failure from emptiness, by not caching.                           *)
(***************************************************************************)
\* getSubwayRawArrivals(station) of call c settles with items
SubwayRawSettle(c, station, items) ==
  /\ pc = "fetching"
  /\ c \in 1..Len(aggCalls)
  /\ station \in DOMAIN aggCalls[c].subway
  /\ ~aggCalls[c].subway[station].done
  /\ LET call == aggCalls[c]
         newSubway == [call.subway EXCEPT
                         ![station] = [done |-> TRUE, items |-> items]]
         allRaw == \A st \in DOMAIN newSubway : newSubway[st].done
         newBus == [i \in DOMAIN call.bus |->
                      IF allRaw /\ call.bus[i].st = "waiting"
                      THEN [call.bus[i] EXCEPT !.st = "pending"]
                      ELSE call.bus[i]]
         newCalls == [aggCalls EXCEPT
                        ![c] = [call EXCEPT !.subway = newSubway,
                                            !.bus = newBus]]
     IN /\ aggCalls' = newCalls
        /\ calls' = calls
                    + Cardinality({ i \in DOMAIN newBus :
                                      newBus[i].st # call.bus[i].st })
        /\ Conclude(mode, routes, now, kstHourShown, newCalls, tasks)
  /\ UNCHANGED << mode, routes, now, kstHourShown, tasks, moduleVars,
                  aggLeg, aggFeed, aggOut, query, reaches, transitVars,
                  otherVars >>

\* getBusArrival for leg i of call c settles with list
BusSettle(c, i, list) ==
  /\ pc = "fetching"
  /\ c \in 1..Len(aggCalls)
  /\ i \in DOMAIN aggCalls[c].bus
  /\ aggCalls[c].bus[i].st = "pending"
  /\ LET newCalls == [aggCalls EXCEPT
                        ![c].bus[i] = [st |-> "done", list |-> list]]
     IN /\ aggCalls' = newCalls
        /\ Conclude(mode, routes, now, kstHourShown, newCalls, tasks)
  /\ UNCHANGED << mode, routes, now, kstHourShown, calls, tasks, moduleVars,
                  aggLeg, aggFeed, aggOut, query, reaches, transitVars,
                  otherVars >>

\* loadTerminals settles: "loaded" (rows from the database or the API),
\* "empty" (no rows anywhere, it returns without a list) or "rejected"
\* (findMany or createMany threw).  The loader's catch swallows a rejection;
\* a waiter awaits the same promise outside any try.
LoadSettle(outcome) ==
  /\ pc = "fetching"
  /\ syncState = "syncing"
  /\ LET newList == IF outcome = "loaded" THEN [i \in 1..Len(Directory) |-> toTerminalData(Directory[i])]
                    ELSE terminalList
         thrown(l) == l.role = "waiter" /\ outcome = "rejected"
         settle(l, name) ==
           IF l.role = "resolved" \/ thrown(l) THEN l
           ELSE [role |-> "resolved", id |-> matchTerminal(newList, name)]
         settled == [t \in 1..Len(tasks) |->
                       [tasks[t] EXCEPT !.dep = settle(@, tasks[t].start),
                                        !.arr = settle(@, tasks[t].end)]]
         named == { tasks[t].start : t \in { u \in 1..Len(tasks) :
                      tasks[u].dep.role # "resolved" /\ ~thrown(tasks[u].dep) } }
                  \cup
                  { tasks[t].end : t \in { u \in 1..Len(tasks) :
                      tasks[u].arr.role # "resolved" /\ ~thrown(tasks[u].arr) } }
         rejects == \E t \in 1..Len(tasks) :
                      thrown(tasks[t].dep) \/ thrown(tasks[t].arr)
         newTasks == [t \in 1..Len(tasks) |->
                        advance(settled[t], scheduleCache, now)]
     IN /\ terminalList' = newList
        /\ syncState' = IF outcome = "rejected" THEN "idle" ELSE "done"
        /\ syncPromise' = IF outcome = "rejected" THEN "none" ELSE "settled"
        /\ terminalNameCache' =
             [n \in DOMAIN terminalNameCache \cup named |->
                IF n \in DOMAIN terminalNameCache THEN terminalNameCache[n]
                ELSE matchTerminal(newList, n)]
        /\ IF rejects
           THEN /\ pc' = "rejected"
                /\ tasks' = settled
                /\ etaResults' = << >>
                /\ UNCHANGED << scheduleCache, calls >>
           ELSE /\ tasks' = newTasks
                /\ scheduleCache' =
                     afterScheduleMisses(scheduleCache, settled, newTasks, now)
                /\ calls' = calls + schedFetches(settled, newTasks)
                /\ Conclude(mode, routes, now, kstHourShown, aggCalls,
                            newTasks)
  /\ UNCHANGED << mode, routes, now, kstHourShown, aggCalls,
                  aggLeg, aggFeed, aggOut, query, reaches, transitVars,
                  otherVars >>

\* the timetable fetch of task t settles: ok with items, or failed
SchedSettle(t, ok, items) ==
  /\ pc = "fetching"
  /\ t \in 1..Len(tasks)
  /\ tasks[t].phase = "sched"
  /\ LET schedules == IF ok THEN parseSchedules(items) ELSE << >>
         key == scheduleKey(tasks[t], now)
         newTasks == [tasks EXCEPT
                        ![t].phase = "done",
                        ![t].departures =
                          upcomingDepartures(schedules, now, 2)]
     IN /\ tasks' = newTasks
        /\ scheduleCache' =
             IF ok
             THEN [k \in DOMAIN scheduleCache \cup {key} |->
                     IF k = key
                     THEN [schedules |-> schedules,
                           dateKey |-> getKoreaDateString(now)]
                     ELSE scheduleCache[k]]
             ELSE scheduleCache
        /\ Conclude(mode, routes, now, kstHourShown, aggCalls, newTasks)
  /\ UNCHANGED << mode, routes, now, kstHourShown, calls, aggCalls,
                  syncState, syncPromise, terminalList, terminalNameCache,
                  aggLeg, aggFeed, aggOut, query, reaches, transitVars,
                  otherVars >>

\* the caller has its answer (or its exception); the module state stays
Respond ==
  /\ pc \in {"done", "rejected"}
  /\ pc' = "idle" /\ mode' = "single" /\ routes' = << >> /\ now' = 0
  /\ kstHourShown' = 0 /\ calls' = 0 /\ aggCalls' = << >> /\ tasks' = << >>
  /\ etaResults' = << >>
  /\ UNCHANGED << moduleVars, aggLeg, aggFeed, aggOut, query, reaches, transitVars,
                  otherVars >>

\* the route lists one dashboard request can see: a commute or return route,
\* and possibly commute routes after it
Batches ==
  UNION { { rs \in [1..k -> RoutesOf(MaxLegs - (k - 1), RouteTypes)] :
              LET total[r \in 0..k] ==
                    IF r = 0 THEN 0 ELSE total[r - 1] + Len(rs[r].legs)
              IN /\ total[k] <= MaxLegs
                 /\ \A r \in 2..k : rs[r].routeType = "commute" } :
          k \in 1..MaxRoutes }

withIds(rs) == [r \in 1..Len(rs) |-> [rs[r] EXCEPT !.id = r]]

Next ==
  \/ \E route \in RoutesOf(MaxLegs, {"commute"}), date \in Instants :
       CalculateETA(route, date)
  \/ \E rs \in Batches, date \in Instants :
       \E hour \in localeHours(date) : CalculateAllETAs(withIds(rs), date, hour)
  \/ \E c \in 1..MaxLegs, station \in {"suseoyeok"},
        items \in SeqsUpTo(SubwayItems, MaxFeed) :
       SubwayRawSettle(c, station, items)
  \/ \E c \in 1..MaxLegs, i \in 1..MaxLegs,
        list \in SeqsUpTo(BusArrivals, MaxFeed) :
       BusSettle(c, i, list)
  \/ \E outcome \in {"loaded", "empty", "rejected"} : LoadSettle(outcome)
  \/ \E t \in 1..MaxLegs, ok \in BOOLEAN,
        items \in SeqsUpTo(DepTimes, MaxFeed) :
       SchedSettle(t, ok, items)
  \/ Respond

Spec == Init /\ [][Next]_vars


(***************************************************************************)
(* One leg query of getAllTransitArrivals on its own: the leg and what its *)
(* source returned are drawn at the start, the action is the query.        *)
(***************************************************************************)
BusLegAnyLine == [BusLeg EXCEPT !.lineNames = << >>]

AggLegs == {BusLeg, BusLegAnyLine, BusLegNoStopId, SubwayLeg}

AggTimes == {0, 60, 120}

\* what getBusArrival can hand back: line names differing in case and not
AggBusArrivals ==
  { [lineName |-> n, arrivalTime |-> t, arrivalMessage |-> "got dochak",
     destination |-> NULL] : n \in {"X", "x", "Q"}, t \in AggTimes }

AggFeeds(leg) ==
  IF leg.type = "bus" THEN SeqsUpTo(AggBusArrivals, MaxRaw)
  ELSE SeqsUpTo(SubwayItems, MaxRaw)

InitAgg ==
  /\ Idle
  /\ aggLeg \in AggLegs
  /\ aggFeed \in AggFeeds(aggLeg)
  /\ aggOut = NoOutput
  /\ query = NoQuery /\ reaches = NoAnswer

AggregateLeg ==
  /\ ~aggOut.done
  /\ aggOut' = [done |-> TRUE, entry |-> legQuery(aggLeg, aggFeed)]
  /\ UNCHANGED << requestVars, moduleVars, aggLeg, aggFeed, query, reaches, transitVars,
                  otherVars >>

NextAgg == AggregateLeg

SpecAgg == InitAgg /\ [][NextAgg]_vars

(***************************************************************************)
(* One willTrainReachStation call on its own.                              *)
(***************************************************************************)
\* every station of GTX-A and a name the line does not have
GtxNames ==
  { SUBWAY_LINES["1032"].stations[i] :
      i \in 1..Len(SUBWAY_LINES["1032"].stations) } \cup {"pangyo"}

\* line 5 around its branch point, line 2 around Seongsu
Line5Names ==
  {"cheonho", "gangdong", "gildong", "gubeundari", "dunchondong",
   "olympicgongwon"}

Line2Names ==
  {"ttukseom", "seongsu", "geondaeipgu", "yongdap", "sicheong", "chungjeongno"}

QueriesOn(lineId, names, directions) ==
  { [lineId |-> lineId, startStation |-> a, destStation |-> d,
     trainTerminal |-> t, direction |-> dir] :
      a \in names, d \in names, t \in names, dir \in directions }

Queries ==
  QueriesOn("1032", GtxNames, {"", "hahaeng"})
  \cup QueriesOn("1005", Line5Names, {"", "sanghaeng"})
  \cup QueriesOn("1002", Line2Names, {"", "oeseon", "naeseon"})
  \cup QueriesOn("9999", {"suseo"}, {""})

InitGraph ==
  /\ Idle
  /\ aggLeg = WalkLeg /\ aggFeed = << >> /\ aggOut = NoOutput
  /\ query \in Queries
  /\ reaches = NoAnswer

WillTrainReachStation ==
  /\ ~reaches.called
  /\ reaches' =
       [called |-> TRUE,
        value |-> willTrainReachStation(query.lineId, query.startStation,
                                        query.destStation, query.trainTerminal,
                                        query.direction)]
  /\ UNCHANGED << requestVars, moduleVars, aggLeg, aggFeed, aggOut, query, transitVars,
                  otherVars >>

NextGraph == WillTrainReachStation

SpecGraph == InitGraph /\ [][NextGraph]_vars

(***************************************************************************)
(* One filterSubwayArrivals call on its own: the station's raw items and   *)
(* the leg are drawn at the start, the action is the call.                 *)
(***************************************************************************)
\* a leg on line 2, Gangnam to Jamsilsaenae
Line2Leg ==
  [type |-> "subway", legSubType |-> NULL, startStation |-> "gangnam",
   endStation |-> "jamsilsaenae", startStationId |-> NULL,
   lineNames |-> <<"2hoseon">>]

\* legs whose destination the line does not have, or that have none
FilterLegs ==
  {Line2Leg, SubwayLeg,
   [Line2Leg EXCEPT !.endStation = "pangyo"],
   [Line2Leg EXCEPT !.endStation = NULL]}

\* realtimeArrivalList items of station Gangnam: terminals on the loop,
\* no terminal, a terminal the line does not have
Line2Items ==
  { [subwayId |-> "1002", updnLine |-> dir, bstatnNm |-> t,
     barvlDt |-> "60", subwayNm |-> NULL, arvlMsg2 |-> "jinip"] :
      dir \in {"oeseon", "naeseon"},
      t \in {"jamsilsaenae", "sillim", "seongsu", NULL, "pangyo"} }

FilterFeeds(leg) ==
  IF leg.startStation = "gangnam" THEN SeqsUpTo(Line2Items, MaxRaw)
  ELSE SeqsUpTo(SubwayItems, MaxRaw)

InitFilter ==
  /\ Idle
  /\ aggLeg \in FilterLegs
  /\ aggFeed \in FilterFeeds(aggLeg)
  /\ aggOut = NoOutput
  /\ query = NoQuery /\ reaches = NoAnswer

\* filteredItems, the value of items.filter(...) where the filter runs
filteredItemsOf(items, stationName, endStation) ==
  IF endStation # NULL /\ Len(items) > 0
  THEN directionFiltered(items, stripYeok(stationName), stripYeok(endStation))
  ELSE items

FilterSubwayArrivals ==
  /\ ~aggOut.done
  /\ aggOut' =
       [done |-> TRUE,
        filteredItems |-> filteredItemsOf(aggFeed, aggLeg.startStation,
                                          aggLeg.endStation),
        arrivals |-> filterSubwayArrivals(aggFeed, aggLeg.startStation,
                                          aggLeg.endStation)]
  /\ UNCHANGED << requestVars, moduleVars, aggLeg, aggFeed, query, reaches, transitVars,
                  otherVars >>

NextFilter == FilterSubwayArrivals

SpecFilter == InitFilter /\ [][NextFilter]_vars

(***************************************************************************)
(* One determineSubwayDirection call on its own.                           *)
(***************************************************************************)
\* names as saved legs carry them: with the station suffix, with a space,
\* of another line, none
DirectionNames(names) == names \cup {"suseoyeok", "gil dong", "pangyo", NULL}

DirectionQueriesOn(lineId, names) ==
  { [lineId |-> lineId, startStation |-> a, destStation |-> d,
     trainTerminal |-> "", direction |-> ""] : a \in names, d \in names }

DirectionQueries ==
  DirectionQueriesOn("1032", DirectionNames(GtxNames))
  \cup DirectionQueriesOn("1005", DirectionNames(Line5Names))
  \cup DirectionQueriesOn("1002", DirectionNames(Line2Names))
  \cup DirectionQueriesOn("9999", {"suseo", "pangyo"})

InitDirection ==
  /\ Idle
  /\ aggLeg = WalkLeg /\ aggFeed = << >> /\ aggOut = NoOutput
  /\ query \in DirectionQueries
  /\ reaches = NoAnswer

DetermineSubwayDirection ==
  /\ ~reaches.called
  /\ reaches' =
       [called |-> TRUE,
        direction |-> determineSubwayDirection(query.lineId,
                                               query.startStation,
                                               query.destStation)]
  /\ UNCHANGED << requestVars, moduleVars, aggLeg, aggFeed, aggOut, query, transitVars,
                  otherVars >>

NextDirection == DetermineSubwayDirection

SpecDirection == InitDirection /\ [][NextDirection]_vars

(***************************************************************************)
(* RealtimeTransitService as a process.  An invocation of                  *)
(* getAllTransitArrivals is [legs, startedAt, subway, state, overlaps]:    *)
(* subway maps a prefetched station to [done, items], state[i] is where    *)
(* the query of leg i stands, [pc, pre, now, miss, city, feed, ..], overlaps *)
(* says an earlier invocation was still running when this one started.  A  *)
(* step runs a continuation up to its next fetch; m = [bus, gy, req,       *)
(* state] carries the two caches it writes, the request log and the leg    *)
(* states.                                                                 *)
(***************************************************************************)
ARRIVAL_CACHE_TTL_MS == 20000

\* the value of servedFrom when the result did not come from a cache
NotServed == 0 - 1

\* a bug this model is checked against: an entry is served at its expiry
cacheHitAtExpiry(cache, key) ==
  key \in DOMAIN cache /\ cache[key].expiresAt >= clock

\* cached && cached.expiresAt > now
cacheHit(cache, key) == key \in DOMAIN cache /\ cache[key].expiresAt > clock

cachePut(cache, key, data, at) ==
  (key :> [data |-> data, expiresAt |-> at + ARRIVAL_CACHE_TTL_MS,
           since |-> at]) @@ cache

\* fetch(url): one more request of the kind in the log
issue(m, r) ==
  [m EXCEPT !.req = IF r \in DOMAIN m.req THEN [m.req EXCEPT ![r] = @ + 1]
                    ELSE (r :> 1) @@ m.req]

fetchFor(m, inv, i, source, via, awaiting) ==
  [issue(m, [inv |-> inv, leg |-> i, source |-> source, via |-> via])
     EXCEPT !.state[i].pc = awaiting]

\* the leg query has its arrivals (or returned null)
legDone(m, i, feed) == [m EXCEPT !.state[i].pc = "done", !.state[i].feed = feed]

\* the entry just written, with what its writer was asked for and what the
\* city feed had answered it
writtenFor(cache, key, lineNames, city) ==
  [cache EXCEPT ![key] = @ @@ [names |-> lineNames, city |-> city]]

\* the tail of getBusArrival: the result is cached, whatever it is
finishBus(m, i, leg, result) ==
  legDone([m EXCEPT !.bus = writtenFor(cachePut(m.bus,
                                                "bus:" \o leg.startStationId,
                                                result, m.state[i].now),
                                       "bus:" \o leg.startStationId,
                                       leg.lineNames, m.state[i].city)],
          i, result)

\* getGyeonggiBusArrival up to its first fetch
enterGyeonggi(m, inv, i, leg) ==
  IF m.state[i].pre # NULL \/ leg.startStationId \in DOMAIN m.gy
  THEN fetchFor(m, inv, i, "regionalBus", "getBusArrival", "gyeonggi")
  ELSE fetchFor(m, inv, i, "stopDirectory", "getBusArrival", "resolve2")

\* getBusArrival after the cache miss
afterMiss(m, inv, i, leg) ==
  IF Includes(leg.startStationId, "-")
  THEN fetchFor(m, inv, i, "cityBus", "getBusArrival", "seoul")
  ELSE enterGyeonggi(m, inv, i, leg)

\* getBusArrival up to its first fetch
enterGetBusArrival(m, inv, i, leg) ==
  IF dataGoKrKey = "" THEN legDone(m, i, << >>)
  ELSE IF cacheHit(m.bus, "bus:" \o leg.startStationId)
  THEN legDone([m EXCEPT !.state[i].now = clock,
                         !.state[i].servedFrom =
                           m.bus["bus:" \o leg.startStationId].since,
                         !.state[i].hit =
                           m.bus["bus:" \o leg.startStationId]],
               i, m.bus["bus:" \o leg.startStationId].data)
  ELSE afterMiss([m EXCEPT !.state[i].now = clock, !.state[i].miss = TRUE],
                 inv, i, leg)

\* a bug this model is checked against: a leg without an id is reported
notifyAnyLeg(m, i, leg, resolved) ==
  [m EXCEPT !.state[i].notified = [legId |-> leg.id, stationId |-> resolved],
            !.state[i].persist = "pending"]

\* options.onResolvedGyeonggiStation(leg.id, resolved), whose update of the
\* leg row is left running
notify(m, i, leg, resolved) ==
  IF leg.id # NULL
  THEN [m EXCEPT !.state[i].notified = [legId |-> leg.id,
                                        stationId |-> resolved],
                 !.state[i].persist = "pending"]
  ELSE m

\* the bus branch of the leg query up to its first fetch
startBusLeg(m, inv, i, leg) ==
  IF leg.startStationId = NULL THEN legDone(m, i, << >>)
  ELSE IF Includes(leg.startStationId, "-")
  THEN enterGetBusArrival(m, inv, i, leg)
  ELSE IF leg.gyeonggiStationId # NULL
  THEN enterGetBusArrival([m EXCEPT !.state[i].pre = leg.gyeonggiStationId],
                          inv, i, leg)
  ELSE IF leg.startStationId \in DOMAIN m.gy
  THEN enterGetBusArrival(notify([m EXCEPT !.state[i].pre =
                                              m.gy[leg.startStationId]],
                                 i, leg, m.gy[leg.startStationId]),
                          inv, i, leg)
  ELSE fetchFor(m, inv, i, "stopDirectory", "getAllTransitArrivals", "resolve")

\* subwayRawMap.get(leg.startStation) ?? []
rawItemsOf(subway, station) ==
  IF station \in DOMAIN subway THEN subway[station].items ELSE << >>

startLeg(m, inv, i, leg, subway) ==
  IF leg.type = "bus" THEN startBusLeg(m, inv, i, leg)
  ELSE legDone(m, i, rawItemsOf(subway, leg.startStation))

RECURSIVE startLegs(_, _, _, _, _)
\* transitLegs.map(async (leg) => ...): every query runs to its first fetch
startLegs(m, inv, legs, subway, i) ==
  IF i > Len(legs) THEN m
  ELSE startLegs(startLeg(m, inv, i, legs[i], subway), inv, legs, subway, i + 1)

\* the machine a continuation of invocation inv starts from
machine(inv) ==
  [bus |-> busArrivalCache, gy |-> gyeonggiStationCache, req |-> requests,
   state |-> invocations[inv].state]

\* what a continuation leaves behind
Leaves(inv, m, subway) ==
  /\ busArrivalCache' = m.bus
  /\ gyeonggiStationCache' = m.gy
  /\ requests' = m.req
  /\ invocations' = [invocations EXCEPT ![inv].state = m.state,
                                        ![inv].subway = subway]

prefetched(subway) == \A st \in DOMAIN subway : subway[st].done

\* getSubwayRawArrivals up to its fetch: no key, a cache hit, or a request
rawOrPending(station) ==
  IF seoulDataKey = ""
  THEN [done |-> TRUE, items |-> << >>, servedFrom |-> NotServed]
  ELSE IF cacheHit(subwayRawCache, "subway:" \o stripYeok(station))
  THEN [done |-> TRUE,
        items |-> subwayRawCache["subway:" \o stripYeok(station)].data,
        servedFrom |-> subwayRawCache["subway:" \o stripYeok(station)].since]
  ELSE [done |-> FALSE, items |-> << >>, servedFrom |-> NotServed]

RECURSIVE issueAll(_, _, _)
issueAll(m, inv, stations) ==
  IF stations = {} THEN m
  ELSE LET st == CHOOSE x \in stations : TRUE
       IN issueAll(issue(m, [inv |-> inv, leg |-> 0, source |-> "subway",
                             via |-> st]),
                   inv, stations \ {st})

\* every leg query of the invocation has returned
finished(call) ==
  /\ prefetched(call.subway)
  /\ \A i \in 1..Len(call.legs) : call.state[i].pc = "done"

NoNotice == [legId |-> NULL, stationId |-> NULL]

\* no cache entry served
NoHit ==
  [data |-> << >>, expiresAt |-> 0, since |-> NotServed, names |-> << >>,
   city |-> << >>]

NotStarted ==
  [pc |-> "prefetch", pre |-> NULL, now |-> 0, miss |-> FALSE,
   city |-> << >>, feed |-> << >>, notified |-> NoNotice, persist |-> "none",
   servedFrom |-> NotServed, hit |-> NoHit]

\* getAllTransitArrivals(legs) up to its first fetches
GetAllTransitArrivals(legs) ==
  /\ Len(invocations) < MaxCalls
  /\ LET inv == Len(invocations) + 1
         transitLegs == SelectSeq(legs, isTransit)
         subway == [st \in subwayStationsOf(transitLegs) |-> rawOrPending(st)]
         m0 == issueAll([bus |-> busArrivalCache, gy |-> gyeonggiStationCache,
                         req |-> requests,
                         state |-> [i \in 1..Len(transitLegs) |-> NotStarted]],
                        inv, { st \in DOMAIN subway : ~subway[st].done })
         m == IF prefetched(subway)
              THEN startLegs(m0, inv, transitLegs, subway, 1)
              ELSE m0
     IN /\ busArrivalCache' = m.bus
        /\ gyeonggiStationCache' = m.gy
        /\ requests' = m.req
        /\ invocations' =
             Append(invocations,
                    [legs |-> transitLegs, startedAt |-> clock,
                     subway |-> subway, state |-> m.state,
                     overlaps |-> \E k \in 1..Len(invocations) :
                                    ~finished(invocations[k])])
  /\ UNCHANGED << requestVars, moduleVars, aggLeg, aggFeed, aggOut, query,
                  reaches, dataGoKrKey, seoulDataKey, clock, subwayRawCache,
                  otherVars >>

\* the subway request for a station settles: ok with items, or not ok (no
\* 2xx, an error code, a timeout), which is not cached
SubwaySettle(inv, station, ok, items) ==
  /\ inv \in 1..Len(invocations)
  /\ station \in DOMAIN invocations[inv].subway
  /\ ~invocations[inv].subway[station].done
  /\ LET call == invocations[inv]
         got == IF ok THEN items ELSE << >>
         subway == [call.subway EXCEPT
                      ![station].done = TRUE, ![station].items = got]
         m == IF prefetched(subway)
              THEN startLegs(machine(inv), inv, call.legs, subway, 1)
              ELSE machine(inv)
     IN /\ subwayRawCache' =
             IF ok THEN cachePut(subwayRawCache,
                                 "subway:" \o stripYeok(station), items,
                                 call.startedAt)
             ELSE subwayRawCache
        /\ Leaves(inv, m, subway)
  /\ UNCHANGED << requestVars, moduleVars, aggLeg, aggFeed, aggOut, query,
                  reaches, dataGoKrKey, seoulDataKey, clock,
                  otherVars >>

awaiting(inv, i, pcs) ==
  /\ inv \in 1..Len(invocations)
  /\ i \in 1..Len(invocations[inv].legs)
  /\ invocations[inv].state[i].pc \in pcs

\* resolveGyeonggiStationId after its fetch: a station id is cached, null
\* (no 2xx, no match, an exception) is not
resolvedInto(m, leg, resolved) ==
  IF resolved = NULL THEN m
  ELSE [m EXCEPT !.gy = (leg.startStationId :> resolved) @@ m.gy]

\* the caller of resolveGyeonggiStationId goes on: the leg query with
\* getBusArrival, getGyeonggiBusArrival with its fetch or with []
afterResolve(m, inv, i, leg, resolved) ==
  IF m.state[i].pc = "resolve"
  THEN enterGetBusArrival(IF resolved = NULL THEN m
                          ELSE notify([m EXCEPT !.state[i].pre = resolved],
                                      i, leg, resolved),
                          inv, i, leg)
  ELSE IF resolved = NULL THEN finishBus(m, i, leg, << >>)
  ELSE fetchFor(m, inv, i, "regionalBus", "getBusArrival", "gyeonggi")

\* the stop-directory request of leg i settles
DirectorySettle(inv, i, resolved) ==
  /\ awaiting(inv, i, {"resolve", "resolve2"})
  /\ Leaves(inv,
            afterResolve(resolvedInto(machine(inv), invocations[inv].legs[i],
                                      resolved),
                         inv, i, invocations[inv].legs[i], resolved),
            invocations[inv].subway)
  /\ UNCHANGED << requestVars, moduleVars, aggLeg, aggFeed, aggOut, query,
                  reaches, dataGoKrKey, seoulDataKey, clock, subwayRawCache,
                  otherVars >>

\* a bug this model is checked against: the line names are not compared
seoulAcceptedUnmatched(leg, seoulArrivals) == Len(seoulArrivals) > 0

\* seoulArrivals is the result unless it is empty or misses every line name
seoulAccepted(leg, seoulArrivals) ==
  /\ Len(seoulArrivals) > 0
  /\ Len(leg.lineNames) > 0
       => \E k \in 1..Len(seoulArrivals) :
            matchesLineNames(seoulArrivals[k], leg.lineNames)

afterSeoul(m, inv, i, leg, seoulArrivals) ==
  IF seoulAccepted(leg, seoulArrivals) THEN finishBus(m, i, leg, seoulArrivals)
  ELSE enterGyeonggi(m, inv, i, leg)

\* the city bus request of leg i settles; a failure reads as no arrivals
CitySettle(inv, i, seoulArrivals) ==
  /\ awaiting(inv, i, {"seoul"})
  /\ Leaves(inv,
            afterSeoul([machine(inv) EXCEPT !.state[i].city = seoulArrivals],
                       inv, i, invocations[inv].legs[i], seoulArrivals),
            invocations[inv].subway)
  /\ UNCHANGED << requestVars, moduleVars, aggLeg, aggFeed, aggOut, query,
                  reaches, dataGoKrKey, seoulDataKey, clock, subwayRawCache,
                  otherVars >>

\* the regional arrival request of leg i settles; a failure reads as none
RegionalSettle(inv, i, arrivals) ==
  /\ awaiting(inv, i, {"gyeonggi"})
  /\ Leaves(inv, finishBus(machine(inv), i, invocations[inv].legs[i], arrivals),
            invocations[inv].subway)
  /\ UNCHANGED << requestVars, moduleVars, aggLeg, aggFeed, aggOut, query,
                  reaches, dataGoKrKey, seoulDataKey, clock, subwayRawCache,
                  otherVars >>

\* the update of the leg row started by the callback settles; a failure is
\* logged by its catch handler
PersistSettles(inv, i, ok) ==
  /\ inv \in 1..Len(invocations)
  /\ i \in 1..Len(invocations[inv].legs)
  /\ invocations[inv].state[i].persist = "pending"
  /\ invocations' = [invocations EXCEPT
                       ![inv].state[i].persist = IF ok THEN "saved"
                                                 ELSE "failed"]
  /\ UNCHANGED << requestVars, moduleVars, aggLeg, aggFeed, aggOut, query,
                  reaches, dataGoKrKey, seoulDataKey, clock, busArrivalCache,
                  subwayRawCache, gyeonggiStationCache, requests, otherVars >>

\* time passes
Tick ==
  /\ clock < MaxClock
  /\ clock' = clock + TickMs
  /\ UNCHANGED << requestVars, moduleVars, aggLeg, aggFeed, aggOut, query,
                  reaches, dataGoKrKey, seoulDataKey, busArrivalCache,
                  subwayRawCache, gyeonggiStationCache, invocations, requests,
                  otherVars >>

\* the value an invocation resolves with once every leg query is done
returned(call) ==
  SelectSeq([i \in 1..Len(call.legs) |->
               legQuery(call.legs[i], call.state[i].feed)],
            LAMBDA r : r.found)

\* legs as the database rows carry them
CityStop == BusLeg @@ [id |-> "leg1", gyeonggiStationId |-> NULL]

CityStopAnyLine == [CityStop EXCEPT !.id = "leg2", !.lineNames = << >>]

RegionalStop ==
  [CityStop EXCEPT !.id = "leg3", !.startStationId = "12345",
                   !.lineNames = <<"X">>]

RegionalStopResolved ==
  [RegionalStop EXCEPT !.id = "leg4", !.gyeonggiStationId = "200000123"]

SubwayStop == SubwayLeg @@ [id |-> "leg5", gyeonggiStationId |-> NULL]

\* a leg passed without its row id
RegionalStopNoId == [RegionalStop EXCEPT !.id = NULL]

ServiceLegs ==
  {CityStop, CityStopAnyLine, RegionalStop, RegionalStopResolved,
   RegionalStopNoId, SubwayStop}

\* the legs of one invocation: one or two different legs
ServiceLegLists ==
  { legs \in SeqsUpTo(ServiceLegs, MaxLegs) :
      Len(legs) > 0 /\ \A i, j \in 1..Len(legs) : i # j => legs[i] # legs[j] }

\* what the bus feeds hand back, parsed
ServiceArrivals ==
  { << >>,
    << [lineName |-> "x", arrivalTime |-> 60, arrivalMessage |-> "1bun hu",
        destination |-> NULL] >>,
    << [lineName |-> "Q", arrivalTime |-> 60, arrivalMessage |-> "1bun hu",
        destination |-> NULL] >> }

ServiceItems ==
  { << >>,
    << [subwayId |-> "1032", updnLine |-> "hahaeng", bstatnNm |-> "dongtan",
        barvlDt |-> "60", subwayNm |-> NULL, arvlMsg2 |-> "jinip"] >> }

InitService ==
  /\ IdleCalculator
  /\ aggLeg = WalkLeg /\ aggFeed = << >> /\ aggOut = NoOutput
  /\ query = NoQuery /\ reaches = NoAnswer
  /\ IdleOthers
  /\ IdleService
  /\ dataGoKrKey \in {"", "key"}
  /\ seoulDataKey \in {"", "key"}

NextService ==
  \/ \E legs \in ServiceLegLists :
       /\ Len(invocations) > 0 => Len(invocations[1].legs) + Len(legs) <= MaxLegs
       /\ GetAllTransitArrivals(legs)
  \/ \E inv \in 1..MaxCalls, ok \in BOOLEAN, items \in ServiceItems :
       SubwaySettle(inv, SubwayStop.startStation, ok, items)
  \/ \E inv \in 1..MaxCalls, i \in 1..MaxLegs,
        resolved \in {NULL, "200000123"} :
       DirectorySettle(inv, i, resolved)
  \/ \E inv \in 1..MaxCalls, i \in 1..MaxLegs,
        seoulArrivals \in ServiceArrivals :
       CitySettle(inv, i, seoulArrivals)
  \/ \E inv \in 1..MaxCalls, i \in 1..MaxLegs, arrivals \in ServiceArrivals :
       RegionalSettle(inv, i, arrivals)
  \/ \E inv \in 1..MaxCalls, i \in 1..MaxLegs, ok \in BOOLEAN :
       PersistSettles(inv, i, ok)
  \/ Tick

SpecService == InitService /\ [][NextService]_vars

(***************************************************************************)
(* The city / intercity split of calculateETA on its own: the route is     *)
(* drawn at the start, the action is the three filters.                    *)
(***************************************************************************)
SplitLegs ==
  { [type |-> t, legSubType |-> sub, startStation |-> "dongseoul",
     endStation |-> "incheon", startStationId |-> id, lineNames |-> << >>] :
      t \in {"bus", "subway", "walk"},
      sub \in {NULL, "intercity_bus", "express_bus", "train"},
      id \in {NULL, "23-101"} }

SplitRoutes ==
  { [id |-> 1, routeType |-> "commute", routeSource |-> src, totalTime |-> 30,
     legs |-> legs] :
      src \in {NULL, "in_local", "inter_local"},
      legs \in SeqsUpTo(SplitLegs, MaxLegs) }

InitSplit ==
  /\ pc = "idle" /\ mode = "single" /\ routes \in { <<r>> : r \in SplitRoutes }
  /\ now = 0 /\ kstHourShown = 0 /\ calls = 0 /\ aggCalls = << >>
  /\ tasks = << >> /\ etaResults = << >>
  /\ syncState = "idle" /\ syncPromise = "none" /\ terminalList = << >>
  /\ terminalNameCache = << >> /\ scheduleCache = << >>
  /\ aggLeg = WalkLeg /\ aggFeed = << >> /\ aggOut = NoOutput
  /\ query = NoQuery /\ reaches = NoAnswer
  /\ IdleOthers
  /\ IdleService /\ dataGoKrKey = "key" /\ seoulDataKey = "key"

\* transitLegs, cityLegs and intercityLegs as positions in route.legs
SplitTransitLegs ==
  /\ ~aggOut.done
  /\ aggOut' = [done |-> TRUE,
                transitLegs |-> transitPositions(routes[1]),
                cityLegs |-> cityPositions(routes[1]),
                intercityLegs |-> intercityPositions(routes[1])]
  /\ UNCHANGED << requestVars, moduleVars, aggLeg, aggFeed, query, reaches,
                  transitVars,
                  otherVars >>

NextSplit == SplitTransitLegs

SpecSplit == InitSplit /\ [][NextSplit]_vars

(***************************************************************************)
(* One getUpcomingDepartures call on its own, the terminal list loaded:    *)
(* the names, the count, the instant and what the timetable API returns    *)
(* are drawn at the start, the action is the call.                         *)
(***************************************************************************)
MaxCount == 3

MaxTimetable == 3

UpcomingDepTimes ==
  {"202611050059", "202611050100", "202611050530", "202611050600"}

UpcomingInstants == {959, 960, 1200}

UpcomingQueries ==
  { [start |-> a, end |-> b, count |-> n, ok |-> ok, items |-> items] :
      a \in {"dongseoul", "busan"}, b \in {"incheon", NULL},
      n \in 1..MaxCount, ok \in BOOLEAN,
      items \in SeqsUpTo(UpcomingDepTimes, MaxTimetable) }

InitUpcoming ==
  /\ pc = "idle" /\ mode = "single" /\ routes = << >>
  /\ now \in UpcomingInstants
  /\ kstHourShown = 0 /\ calls = 0 /\ aggCalls = << >>
  /\ tasks \in { <<q>> : q \in UpcomingQueries } /\ etaResults = << >>
  /\ syncState = "done" /\ syncPromise = "settled"
  /\ terminalList = [i \in 1..Len(Directory) |-> toTerminalData(Directory[i])]
  /\ terminalNameCache = << >> /\ scheduleCache = << >>
  /\ aggLeg = WalkLeg /\ aggFeed = << >> /\ aggOut = NoOutput
  /\ query = NoQuery /\ reaches = NoAnswer
  /\ IdleOthers
  /\ IdleService /\ dataGoKrKey = "key" /\ seoulDataKey = "key"

\* findTerminalByName with the list in memory
findTerminalByName(name) ==
  IF name = NULL THEN NULL
  ELSE IF name \in DOMAIN terminalNameCache THEN terminalNameCache[name]
  ELSE matchTerminal(terminalList, name)

namesLookedUp(q) == {q.start, q.end} \ {NULL}

GetUpcomingDepartures ==
  /\ ~aggOut.done
  /\ LET q == tasks[1]
         depTerminalId == findTerminalByName(q.start)
         arrTerminalId == findTerminalByName(q.end)
         resolved == depTerminalId # NULL /\ arrTerminalId # NULL
         key == depTerminalId \o ":" \o arrTerminalId \o ":"
                \o getKoreaDateString(now)
         schedules == IF resolved /\ q.ok THEN parseSchedules(q.items)
                      ELSE << >>
     IN /\ terminalNameCache' =
             [n \in DOMAIN terminalNameCache \cup namesLookedUp(q) |->
                findTerminalByName(n)]
        /\ scheduleCache' =
             IF resolved /\ q.ok
             THEN (key :> [schedules |-> schedules,
                           dateKey |-> getKoreaDateString(now)])
                  @@ scheduleCache
             ELSE scheduleCache
        /\ calls' = IF resolved THEN calls + 1 ELSE calls
        /\ aggOut' = [done |-> TRUE,
                      depTerminalId |-> depTerminalId,
                      arrTerminalId |-> arrTerminalId,
                      departures |->
                        IF resolved
                        THEN upcomingDepartures(schedules, now, q.count)
                        ELSE << >>]
  /\ UNCHANGED << pc, mode, routes, now, kstHourShown, aggCalls, tasks,
                  etaResults, syncState, syncPromise, terminalList,
                  aggLeg, aggFeed, query, reaches, transitVars,
                  otherVars >>

NextUpcoming == GetUpcomingDepartures

SpecUpcoming == InitUpcoming /\ [][NextUpcoming]_vars

(***************************************************************************)
(* KakaoMapParser.fetchWithRetry as a process: one call, its fetches and   *)
(* its timers.  A fetch settles with a response status or with an error    *)
(* (status 0: network failure or timeout).                                 *)
(***************************************************************************)
MAX_RETRIES == 2

RETRY_BASE_DELAY_MS == 1000

pow2(n) == IF n = 0 THEN 1 ELSE IF n = 1 THEN 2 ELSE 4

\* what a fetch can settle with
FetchOutcomes == {200, 204, 400, 404, 429, 500, 503, 0}

\* response.ok
responseOk(status) == status >= 200 /\ status <= 299

\* a bug this model is checked against: a 429 is handed to the caller
returnsAtOnceAny4xx(status) ==
  responseOk(status) \/ (status >= 400 /\ status < 500)

\* the response is returned and not retried
returnsAtOnce(status) ==
  responseOk(status) \/ (status >= 400 /\ status < 500 /\ status # 429)

errorOf(status) ==
  IF status = 0 THEN "fetch failed" ELSE "HTTP " \o ToString(status)

InitRetry ==
  /\ IdleCalculator
  /\ aggLeg = WalkLeg /\ aggFeed = << >> /\ aggOut = NoOutput
  /\ query = NoQuery /\ reaches = NoAnswer
  /\ IdleOthers
  /\ IdleService /\ dataGoKrKey = "key" /\ seoulDataKey = "key"

\* the call begins: attempt 0 makes its fetch with no delay
FetchWithRetry ==
  /\ retryPc = "idle"
  /\ retryPc' = "fetching"
  /\ attempt' = 0
  /\ lastError' = NULL
  /\ retryLog' = << [kind |-> "fetch", value |-> 0] >>
  /\ UNCHANGED exceptParser

\* the fetch of this attempt settles: return, or the next turn of the loop
\* up to its timer, or the throw after the loop
FetchSettles(status) ==
  /\ retryPc = "fetching"
  /\ IF status # 0 /\ returnsAtOnce(status)
     THEN /\ retryPc' = "returned"
          /\ UNCHANGED << attempt, lastError >>
          /\ retryLog' = Append(retryLog, [kind |-> "response", value |-> status])
     ELSE /\ lastError' = errorOf(status)
          /\ attempt' = attempt + 1
          /\ IF attempt + 1 <= MAX_RETRIES
             THEN /\ retryPc' = "sleeping"
                  /\ retryLog' =
                       retryLog \o
                       << [kind |-> "response", value |-> status],
                          [kind |-> "delay",
                           value |-> RETRY_BASE_DELAY_MS * pow2(attempt)] >>
             ELSE /\ retryPc' = "thrown"
                  /\ retryLog' = Append(retryLog,
                                        [kind |-> "response", value |-> status])
  /\ UNCHANGED exceptParser

\* setTimeout fires: the fetch of this attempt is made
TimerFires ==
  /\ retryPc = "sleeping"
  /\ retryPc' = "fetching"
  /\ retryLog' = Append(retryLog, [kind |-> "fetch", value |-> attempt])
  /\ UNCHANGED << attempt, lastError >>
  /\ UNCHANGED exceptParser

NextRetry ==
  \/ FetchWithRetry
  \/ \E status \in FetchOutcomes : FetchSettles(status)
  \/ TimerFires

\* every fetch settles (the requests carry a timeout) and every timer fires
SpecRetry ==
  /\ InitRetry /\ [][NextRetry]_vars
  /\ WF_vars(FetchWithRetry)
  /\ WF_vars(\E status \in FetchOutcomes : FetchSettles(status))
  /\ WF_vars(TimerFires)

(***************************************************************************)
(* RateLimiter (src/lib/rate-limiter): one instance, its calls and the     *)
(* clock.  A call is synchronous and reads one Date.now().                 *)
(***************************************************************************)
LimiterKeys == {"kakao-pubtrans", "other"}

LimiterTickMs == 1000

LimiterMaxClock == 5000

timestampsOf(ts, key) == IF key \in DOMAIN ts THEN ts[key] ELSE << >>

\* a bug this model is checked against: nothing ever expires
neverExpired(ts, key, cutoff) == ts

\* cleanup(key) with cutoff = Date.now() - windowMs
cleanup(ts, key, cutoff) ==
  IF key \notin DOMAIN ts THEN ts
  ELSE LET filtered == SelectSeq(ts[key], LAMBDA t : t > cutoff)
       IN IF Len(filtered) = 0
          THEN [k \in DOMAIN ts \ {key} |-> ts[k]]
          ELSE [ts EXCEPT ![key] = filtered]

\* canMakeRequest(key) on the cleaned map
canMakeRequest(cleaned, key) == Len(timestampsOf(cleaned, key)) < maxRequests

\* recordRequest(key)
recordRequest(ts, key, at) ==
  (key :> Append(timestampsOf(ts, key), at)) @@ ts

\* getRetryAfterMs(key) on the cleaned map
getRetryAfterMs(cleaned, key, at) ==
  IF Len(timestampsOf(cleaned, key)) < maxRequests THEN 0
  ELSE LET retryAfter == timestampsOf(cleaned, key)[1] + windowMs - at
       IN IF retryAfter > 0 THEN retryAfter ELSE 0

InitLimiter ==
  /\ IdleCalculator
  /\ aggLeg = WalkLeg /\ aggFeed = << >> /\ aggOut = NoOutput
  /\ query = NoQuery /\ reaches = NoAnswer
  /\ IdleParser /\ IdleLoader /\ IdleStore /\ IdleDashboard
  /\ IdleService /\ dataGoKrKey = "key" /\ seoulDataKey = "key"
  /\ maxRequests \in {1, 2} /\ windowMs \in {2000, 3000}
  /\ timestamps = << >> /\ granted = << >> /\ retryAnswer = NoRetryAnswer

CanMakeRequest(key) ==
  /\ timestamps' = cleanup(timestamps, key, clock - windowMs)
  /\ UNCHANGED << maxRequests, windowMs, granted, retryAnswer, clock >>
  /\ UNCHANGED exceptLimiter

TryRequest(key) ==
  /\ LET cleaned == cleanup(timestamps, key, clock - windowMs)
     IN IF canMakeRequest(cleaned, key)
        THEN /\ timestamps' = recordRequest(cleaned, key, clock)
             /\ granted' = recordRequest(granted, key, clock)
        ELSE /\ timestamps' = cleaned
             /\ UNCHANGED granted
  /\ UNCHANGED << maxRequests, windowMs, retryAnswer, clock >>
  /\ UNCHANGED exceptLimiter

GetRetryAfterMs(key) ==
  /\ LET cleaned == cleanup(timestamps, key, clock - windowMs)
     IN /\ timestamps' = cleaned
        /\ retryAnswer' = [key |-> key,
                           value |-> getRetryAfterMs(cleaned, key, clock),
                           can |-> canMakeRequest(cleaned, key)]
  /\ UNCHANGED << maxRequests, windowMs, granted, clock >>
  /\ UNCHANGED exceptLimiter

LimiterTick ==
  /\ clock < LimiterMaxClock
  /\ clock' = clock + LimiterTickMs
  /\ UNCHANGED << limiterVars, exceptLimiter >>

NextLimiter ==
  \/ \E key \in LimiterKeys : CanMakeRequest(key)
  \/ \E key \in LimiterKeys : TryRequest(key)
  \/ \E key \in LimiterKeys : GetRetryAfterMs(key)
  \/ LimiterTick

SpecLimiter == InitLimiter /\ [][NextLimiter]_vars

(***************************************************************************)
(* ensureTerminalsLoaded under concurrent callers.  A step is the code     *)
(* between two awaits; the continuations of a settled promise and new      *)
(* callers are taken in any order.                                         *)
(***************************************************************************)
Callers == {"a", "b", "c"}

MaxLoads == 3

\* if (syncState === "done" && terminalList.length > 0) return
alreadyLoaded(state, list) == state = "done" /\ Len(list) > 0

\* a bug this model is checked against: a caller never joins a load
joinsNothing(state, promise) == FALSE

\* if (syncState === "syncing" && syncPromise) await syncPromise
joinsLoad(state, promise) == state = "syncing" /\ promise # "none"

Outside == [pc |-> "out", on |-> "none"]

InitLoad ==
  /\ IdleCalculator
  /\ aggLeg = WalkLeg /\ aggFeed = << >> /\ aggOut = NoOutput
  /\ query = NoQuery /\ reaches = NoAnswer
  /\ IdleParser /\ IdleLimiter /\ IdleStore /\ IdleDashboard
  /\ IdleService /\ dataGoKrKey = "key" /\ seoulDataKey = "key"
  /\ callers = [c \in Callers |-> Outside]
  /\ loadPromises = << >>

\* a caller enters: it returns, joins the load in flight, or starts one
EnsureTerminalsLoaded(c) ==
  /\ callers[c].pc = "out"
  /\ IF alreadyLoaded(syncState, terminalList)
     THEN UNCHANGED << syncState, syncPromise, callers, loadPromises >>
     ELSE IF joinsLoad(syncState, syncPromise)
     THEN /\ callers' = [callers EXCEPT ![c] = [pc |-> "waiting",
                                                on |-> syncPromise]]
          /\ UNCHANGED << syncState, syncPromise, loadPromises >>
     ELSE LET id == "load" \o ToString(Cardinality(DOMAIN loadPromises) + 1)
          IN /\ Cardinality(DOMAIN loadPromises) < MaxLoads
             /\ syncState' = "syncing"
             /\ syncPromise' = id
             /\ loadPromises' = (id :> "pending") @@ loadPromises
             /\ callers' = [callers EXCEPT ![c] = [pc |-> "loading",
                                                   on |-> id]]
  /\ UNCHANGED << terminalList, exceptLoader >>

\* loadTerminals settles: rows loaded, nothing to load, or an exception
LoadTerminalsSettles(id, outcome) ==
  /\ id \in DOMAIN loadPromises
  /\ loadPromises[id] = "pending"
  /\ loadPromises' = [loadPromises EXCEPT
                        ![id] = IF outcome = "rejected" THEN "rejected"
                                ELSE "fulfilled"]
  /\ terminalList' =
       IF outcome = "loaded"
       THEN [i \in 1..Len(Directory) |-> toTerminalData(Directory[i])]
       ELSE terminalList
  /\ UNCHANGED << syncState, syncPromise, callers, exceptLoader >>

\* the await of a caller returns or throws
Resumes(c) ==
  /\ callers[c].pc \in {"loading", "waiting"}
  /\ loadPromises[callers[c].on] # "pending"
  /\ callers' = [callers EXCEPT ![c] = Outside]
  /\ IF callers[c].pc = "waiting"
     THEN UNCHANGED << syncState, syncPromise >>
     ELSE IF loadPromises[callers[c].on] = "fulfilled"
     THEN syncState' = "done" /\ UNCHANGED syncPromise
     ELSE syncState' = "idle" /\ syncPromise' = "none"
  /\ UNCHANGED << terminalList, loadPromises, exceptLoader >>

NextLoad ==
  \/ \E c \in Callers : EnsureTerminalsLoaded(c)
  \/ \E id \in {"load1", "load2", "load3"},
        outcome \in {"loaded", "empty", "rejected"} :
       LoadTerminalsSettles(id, outcome)
  \/ \E c \in Callers : Resumes(c)

SpecLoad == InitLoad /\ [][NextLoad]_vars


(***************************************************************************)
(* RouteService.saveRoute (src/src/app/error.tsx).  The table of saved     *)
(* routes is shared by every request of the server; a call reads the       *)
(* user's row count, and creates its row in a later step.                  *)
(***************************************************************************)
MAX_ROUTES_PER_USER == 5

Users == {"u1", "u2"}

SaveCallers == {"s1", "s2", "s3"}

\* the rows a user has when the first call is made
InitialCounts == {3, 4, 5}

NotCalled ==
  [pc |-> "out", userId |-> NULL, isDefault |-> FALSE, count |-> 0,
   before |-> 0]

\* prisma.savedRoute.count({ where: { userId } })
countOf(table, userId) ==
  Cardinality({ k \in 1..Len(table) : table[k].userId = userId })

\* count >= MAX_ROUTES_PER_USER
exceeded(count) == count >= MAX_ROUTES_PER_USER

\* tx.savedRoute.updateMany({ where: { userId, isDefault: true }, ... })
clearDefault(table, userId) ==
  [k \in 1..Len(table) |->
     IF table[k].userId = userId
     THEN [table[k] EXCEPT !.isDefault = FALSE]
     ELSE table[k]]

InitSave ==
  /\ IdleCalculator
  /\ aggLeg = WalkLeg /\ aggFeed = << >> /\ aggOut = NoOutput
  /\ query = NoQuery /\ reaches = NoAnswer
  /\ IdleParser /\ IdleLimiter /\ IdleLoader /\ IdleDashboard
  /\ IdleService /\ dataGoKrKey = "key" /\ seoulDataKey = "key"
  /\ \E n \in InitialCounts :
       savedRoute = [k \in 1..n |-> [userId |-> "u1", isDefault |-> k = 1,
                                     by |-> NULL]]
  /\ saveCalls = [c \in SaveCallers |-> NotCalled]

\* saveRoute(userId, data) is called and its count query is answered
SaveRoute(c, userId, isDefault) ==
  /\ saveCalls[c].pc = "out"
  /\ LET count == countOf(savedRoute, userId)
     IN saveCalls' =
          [saveCalls EXCEPT
             ![c] = [pc |-> IF exceeded(count) THEN "thrown" ELSE "counted",
                     userId |-> userId, isDefault |-> isDefault,
                     count |-> count, before |-> Len(savedRoute)]]
  /\ UNCHANGED << savedRoute, exceptStore >>

\* the create of the call is committed, in its transaction with the
\* updateMany when data.isDefault
Creates(c) ==
  /\ saveCalls[c].pc = "counted"
  /\ LET call == saveCalls[c]
         row == [userId |-> call.userId, isDefault |-> call.isDefault,
                 by |-> c]
     IN savedRoute' =
          Append(IF call.isDefault
                 THEN clearDefault(savedRoute, call.userId)
                 ELSE savedRoute, row)
  /\ saveCalls' = [saveCalls EXCEPT ![c].pc = "saved"]
  /\ UNCHANGED exceptStore

NextSave ==
  \/ \E c \in SaveCallers, userId \in Users, isDefault \in BOOLEAN :
       SaveRoute(c, userId, isDefault)
  \/ \E c \in SaveCallers : Creates(c)

SpecSave == InitSave /\ [][NextSave]_vars


(***************************************************************************)
(* calculateAllETAs next to calculateETA of each of its routes, the        *)
(* sources answering both the same: upstream.bus is what getBusArrival     *)
(* returns for stop 23-101, upstream.subway the raw items of station       *)
(* Suseo, upstream.timetable the timetable of the terminal pair; the       *)
(* terminal directory is loaded.                                           *)
(***************************************************************************)
\* a leg with the stop and the lines of BusLeg, saved under other names
BusLegRenamed ==
  [BusLeg EXCEPT !.startStation = "suseoyeok 1beonchulgu",
                 !.endStation = "segokdong"]

\* a leg between the stations of SubwayLeg, saved for another line
SubwayLegOtherLine == [SubwayLeg EXCEPT !.lineNames = <<"SRT">>]

DashboardLegs ==
  {BusLeg, BusLegRenamed, SubwayLeg, SubwayLegOtherLine, IntercityLeg}

DashboardRoutesOf(n, types) ==
  { [id |-> 1, routeType |-> t, routeSource |-> src, totalTime |-> 30,
     legs |-> legs] :
      t \in types, src \in RouteSources,
      legs \in SeqsUpTo(DashboardLegs, n) \ {<< >>} }

\* the saved routes of a user: one route of up to MaxLegs legs, or two
\* routes of one leg
Dashboards ==
  { << route >> : route \in DashboardRoutesOf(MaxLegs, RouteTypes) }
  \cup { << first, second >> :
           first \in DashboardRoutesOf(1, RouteTypes),
           second \in DashboardRoutesOf(1, {"commute"}) }

DashboardInstants == {960, 1200}

\* the call with every fetch settled by the sources
settledBy(call, up) ==
  [call EXCEPT
     !.subway = [st \in DOMAIN call.subway |->
                   [done |-> TRUE, items |-> up.subway]],
     !.bus = [i \in DOMAIN call.bus |->
                IF call.bus[i].st = "none" THEN call.bus[i]
                ELSE [st |-> "done", list |-> up.bus]]]

\* getUpcomingDepartures(leg.startStation, leg.endStation, 2) on the loaded
\* directory
departuresBy(leg, date, up) ==
  LET list == [i \in 1..Len(Directory) |-> toTerminalData(Directory[i])]
  IN IF \/ leg.startStation = NULL \/ leg.endStation = NULL
        \/ matchTerminal(list, leg.startStation) = NULL
        \/ matchTerminal(list, leg.endStation) = NULL
     THEN << >>
     ELSE upcomingDepartures(parseSchedules(up.timetable), date, 2)

\* calculateETA(route) at date
singleETA(route, date, up) ==
  IF isOffHours(date) THEN offHoursETA(route)
  ELSE LET cityLegs == legsAt(route, cityPositions(route))
           ipos == intercityPositions(route)
       IN singleResult(route, date,
                       IF Len(cityLegs) > 0
                       THEN << settledBy(newAggCall("", cityLegs), up) >>
                       ELSE << >>,
                       [k \in 1..Len(ipos) |->
                          [key |-> "", leg |-> ipos[k],
                           departures |->
                             departuresBy(route.legs[ipos[k]], date, up)]])

\* calculateAllETAs at date, rs being what RouteService.getRoutes returned
allETAs(rs, date, hour, up) ==
  IF isOffHours(date)
  THEN sortByPriority([r \in 1..Len(rs) |-> offHoursETA(rs[r])], hour)
  ELSE LET cityLegs == cityLegMap(rs)
           icLegs == intercityLegMap(rs)
       IN resultsOf("batch", rs, date, hour,
                    [k \in 1..Len(cityLegs) |->
                       settledBy(newAggCall(buildCityLegKey(cityLegs[k]),
                                            << cityLegs[k] >>), up)],
                    [k \in 1..Len(icLegs) |->
                       [key |-> buildIntercityLegKey(icLegs[k]), leg |-> 0,
                        departures |-> departuresBy(icLegs[k], date, up)]])

InitDashboard ==
  /\ IdleCalculator
  /\ aggLeg = WalkLeg /\ aggFeed = << >> /\ aggOut = NoOutput
  /\ query = NoQuery /\ reaches = NoAnswer
  /\ IdleParser /\ IdleLimiter /\ IdleLoader /\ IdleStore
  /\ IdleService /\ dataGoKrKey = "key" /\ seoulDataKey = "key"
  /\ singleResults = << >>
  /\ upstream \in [bus : SeqsUpTo(BusArrivals, MaxFeed),
                   subway : SeqsUpTo(SubwayItems, MaxFeed),
                   timetable : SeqsUpTo(DepTimes, MaxFeed)]

\* the dashboard of the user is computed, and each route on its own
CompareETAs(rs, date, hour) ==
  /\ pc = "idle"
  /\ pc' = "done" /\ mode' = "batch" /\ routes' = rs /\ now' = date
  /\ kstHourShown' = hour
  /\ etaResults' = allETAs(rs, date, hour, upstream)
  /\ singleResults' = [r \in 1..Len(rs) |-> singleETA(rs[r], date, upstream)]
  /\ UNCHANGED << calls, aggCalls, tasks, moduleVars, aggLeg, aggFeed, aggOut,
                  query, reaches, transitVars, parserVars, limiterVars,
                  loaderVars, storeVars, upstream >>

NextDashboard ==
  \E rs \in Dashboards, date \in DashboardInstants :
    \E hour \in localeHours(date) : CompareETAs(withIds(rs), date, hour)

SpecDashboard == InitDashboard /\ [][NextDashboard]_vars


(***************************************************************************)
(* Properties of an answered request.  An instant is a number of minutes   *)
(* since 2026-11-04T00:00Z; Korea is nine hours ahead.                     *)
(***************************************************************************)
kstHourOf(date) == ((date \div 60) + 9) % 24

Answered == pc = "done"

ActiveAnswer == pc = "done" /\ ~(kstHourOf(now) >= 1 /\ kstHourOf(now) < 5)

\* the saved route a result belongs to
routeOfResult(res) ==
  routes[CHOOSE k \in 1..Len(routes) : routes[k].id = res.routeId]

\* the aggregator's value for the city leg at pos of a route of the request:
\* calculateETA makes one call for the route's city legs, calculateAllETAs
\* one call per leg key
ownCall(route, pos) ==
  IF mode = "single" THEN 1
  ELSE CHOOSE c \in 1..Len(aggCalls) :
         aggCalls[c].key = buildCityLegKey(route.legs[pos])

ownIndex(route, pos) ==
  IF mode = "single" THEN IndexOf(cityPositions(route), pos) ELSE 1

ownEntry(route, pos) ==
  legQuery(aggCalls[ownCall(route, pos)].legs[ownIndex(route, pos)],
           feedOf(aggCalls[ownCall(route, pos)], ownIndex(route, pos)))

\* the departures the timetable service returned for the intercity leg at pos
ownDepartures(route, pos) ==
  IF mode = "single"
  THEN tasks[CHOOSE t \in 1..Len(tasks) : tasks[t].leg = pos].departures
  ELSE tasks[CHOOSE t \in 1..Len(tasks) :
               tasks[t].key = buildIntercityLegKey(route.legs[pos])].departures

timesOf(entry) ==
  { entry.arrivals[i].arrivalTime : i \in 1..Len(entry.arrivals) }

\* the arrival times of every live arrival returned for the route's city legs
liveTimes(route) ==
  UNION { timesOf(ownEntry(route, cityPositions(route)[k])) :
            k \in 1..Len(cityPositions(route)) }

entriesFor(res, pos) ==
  SelectSeq(res.legArrivals, LAMBDA e : e.emittedFor = pos)

firstTransit(route) == transitPositions(route)[1]

firstIsCity(route) ==
  /\ Len(transitPositions(route)) > 0
  /\ ~isIntercityBusLeg(route.legs[firstTransit(route)], route.routeSource)

headwayOfMode(type) == IF type = "bus" THEN 600 ELSE 300

isPlaceholder(e) == e.arrivalMessage = "silsigan jeongbo eopseum"

\* C1: in every answer of calculateETA and calculateAllETAs, the entries of
\* legArrivals are grouped by leg in the order of the route's transit legs:
\* an entry pushed for a later leg never precedes one pushed for an earlier
\* leg, whatever each leg's source returned and in whatever order.
C1_LegArrivalsInLegOrder ==
  Answered =>
    \A r \in 1..Len(etaResults) :
      LET la == etaResults[r].legArrivals
          route == routeOfResult(etaResults[r])
      IN /\ \A x \in 1..Len(la) : isTransit(route.legs[la[x].emittedFor])
         /\ \A x \in 1..Len(la) : \A y \in (x + 1)..Len(la) :
              la[x].emittedFor <= la[y].emittedFor

\* C1 witness: an answer whose first leg failed (placeholder) and whose
\* second leg has a live entry, the placeholder first
C1_Witness ==
  /\ Answered
  /\ \E r \in 1..Len(etaResults) :
       LET la == etaResults[r].legArrivals
       IN /\ Len(la) = 2
          /\ la[1].emittedFor < la[2].emittedFor
          /\ isPlaceholder(la[1]) /\ ~isPlaceholder(la[2])
          /\ ~la[2].isSchedule

\* C2: (as stated) no failure of an upstream source, a leg query or the
\* terminal-directory load makes calculateETA or calculateAllETAs reject
C2_NeverRejects == pc # "rejected"

\* C3: when the KST hour h of the request satisfies 1 <= h < 5, the request
\* is answered at once with estimatedArrival "", waitTime 0, isEstimate true
\* and legArrivals [] for every route, and no upstream call is issued.
C3_OffHoursAnswer ==
  (pc # "idle" /\ kstHourOf(now) >= 1 /\ kstHourOf(now) < 5) =>
    /\ pc = "done"
    /\ calls = 0 /\ aggCalls = << >> /\ tasks = << >>
    /\ Len(etaResults) = Len(routes)
    /\ \A r \in 1..Len(etaResults) :
         /\ etaResults[r].estimatedArrival = ""
         /\ etaResults[r].waitTime = 0
         /\ etaResults[r].isEstimate
         /\ etaResults[r].legArrivals = << >>

\* C3 witness: a dashboard request of two routes answered at 04:59 KST
C3_Witness ==
  /\ pc = "done" /\ mode = "batch" /\ now = 1199 /\ Len(routes) = 2
  /\ Len(transitPositions(routes[1])) > 0
  /\ etaResults[1].legArrivals = << >>

\* the (leg, lineName) pairs over the route's transit legs
lineNamePairs(route) ==
  UNION { { <<transitPositions(route)[k], n>> :
              n \in { route.legs[transitPositions(route)[k]].lineNames[i] :
                        i \in 1..Len(route.legs[transitPositions(route)[k]]
                                       .lineNames) } } :
            k \in 1..Len(transitPositions(route)) }

\* the transit legs that are intercity legs or name at least one line
legsWithAnEntry(route) ==
  { k \in 1..Len(route.legs) :
      /\ isTransit(route.legs[k])
      /\ \/ isIntercityBusLeg(route.legs[k], route.routeSource)
         \/ Len(route.legs[k].lineNames) > 0 }

\* C4 (as stated): an Active-hours answer of calculateETA for a route with a
\* transit leg has at least as many legArrivals entries as the route has
\* distinct (leg, lineName) pairs
C4_FloorPerLineName ==
  (ActiveAnswer /\ mode = "single"
   /\ Len(transitPositions(routes[1])) > 0) =>
    Len(etaResults[1].legArrivals) >= Cardinality(lineNamePairs(routes[1]))

\* C4 (amended): an Active-hours answer of calculateETA has at least one
\* legArrivals entry for every transit leg that is an intercity leg or names
\* a line; a city leg with live arrivals gets its live entries only, and no
\* placeholder for a line without one.
C4_FloorPerLeg ==
  (ActiveAnswer /\ mode = "single"
   /\ Len(transitPositions(routes[1])) > 0) =>
    /\ Len(etaResults[1].legArrivals)
         >= Cardinality(legsWithAnEntry(routes[1]))
    /\ \A k \in legsWithAnEntry(routes[1]) :
         Len(entriesFor(etaResults[1], k)) >= 1

\* C4 witness: a leg naming two lines with one live arrival: one entry
C4_Witness ==
  /\ ActiveAnswer /\ mode = "single"
  /\ Len(transitPositions(routes[1])) = 1
  /\ Len(routes[1].legs[firstTransit(routes[1])].lineNames) = 2
  /\ Len(etaResults[1].legArrivals) = 1
  /\ ~isPlaceholder(etaResults[1].legArrivals[1])

\* C5: (as stated) for every city leg for which the aggregator returned no
\* live arrival of its own, legArrivals holds exactly one placeholder per
\* entry of the leg's lineNames, with the no-realtime message and the mode
\* headway, also when another leg of the route returned live arrivals
C5_PlaceholderPerLineName ==
  ActiveAnswer =>
    \A r \in 1..Len(etaResults) :
      LET route == routeOfResult(etaResults[r])
      IN \A k \in 1..Len(cityPositions(route)) :
           LET pos == cityPositions(route)[k]
               es == entriesFor(etaResults[r], pos)
           IN ~ownEntry(route, pos).found =>
                /\ Len(es) = Len(route.legs[pos].lineNames)
                /\ \A i \in 1..Len(es) :
                     /\ es[i].lineName = route.legs[pos].lineNames[i]
                     /\ isPlaceholder(es[i])
                     /\ es[i].arrivalTime
                          = headwayOfMode(route.legs[pos].type)

minOf(S) == CHOOSE m \in S : \A n \in S : m <= n

\* C6: in every answer, isEstimate is false only if waitTime is a live
\* reading returned for this route: the wait of the first timetable
\* departure of its first (intercity) leg, or the arrivalTime of a realtime
\* arrival returned for one of its city legs; an off-hours answer and an
\* answer without any live reading have isEstimate true.
C6_EstimateUnlessLive ==
  Answered =>
    \A r \in 1..Len(etaResults) :
      LET res == etaResults[r]
          route == routeOfResult(res)
      IN ~res.isEstimate =>
           /\ ActiveAnswer
           /\ Len(transitPositions(route)) > 0
           /\ IF firstIsCity(route)
              THEN res.waitTime \in liveTimes(route)
              ELSE /\ Len(ownDepartures(route, firstTransit(route))) > 0
                   /\ res.waitTime
                        = ownDepartures(route, firstTransit(route))[1]
                            .waitMinutes * 60

\* C6 witness: one answer not an estimate, its wait a live 60 s, and one
\* answer that is an estimate
C6_Witness ==
  /\ Answered /\ mode = "batch" /\ Len(etaResults) = 2
  /\ \E r \in 1..2 : ~etaResults[r].isEstimate /\ etaResults[r].waitTime = 60
  /\ \E r \in 1..2 : etaResults[r].isEstimate /\ etaResults[r].waitTime = 300

\* C7: (as stated) a route whose first transit leg is a city leg with no
\* matched realtime arrivals has isEstimate true and waitTime equal to that
\* leg's mode headway, whether or not later legs returned live data
C7_FirstLegOnly ==
  ActiveAnswer =>
    \A r \in 1..Len(etaResults) :
      LET res == etaResults[r]
          route == routeOfResult(res)
      IN (firstIsCity(route) /\ ~ownEntry(route, firstTransit(route)).found)
           => /\ res.isEstimate
              /\ res.waitTime
                   = headwayOfMode(route.legs[firstTransit(route)].type)

\* C8 (as stated): first transit leg a city leg and some city leg of the
\* route with realtime arrivals: waitTime is the minimum arrivalTime over
\* all arrivals of all the route's city legs, and isEstimate is false
C8_EarliestOverall ==
  ActiveAnswer =>
    \A r \in 1..Len(etaResults) :
      LET res == etaResults[r]
          route == routeOfResult(res)
      IN (firstIsCity(route) /\ liveTimes(route) # {})
           => /\ res.waitTime = minOf(liveTimes(route))
              /\ ~res.isEstimate

\* C8 (amended): first transit leg a city leg that itself returned realtime
\* arrivals: waitTime is the earliest arrivalTime of that first leg's own
\* arrivals, whatever the later legs returned, and isEstimate is false.
C8_EarliestOfFirstLeg ==
  ActiveAnswer =>
    \A r \in 1..Len(etaResults) :
      LET res == etaResults[r]
          route == routeOfResult(res)
      IN (firstIsCity(route) /\ ownEntry(route, firstTransit(route)).found)
           => /\ res.waitTime
                   = minOf(timesOf(ownEntry(route, firstTransit(route))))
              /\ ~res.isEstimate

\* C8 witness: the first leg's arrival is 60 s away, a later leg's is at the
\* platform, and the wait is 60
C8_Witness ==
  /\ ActiveAnswer /\ mode = "single"
  /\ firstIsCity(routes[1])
  /\ ownEntry(routes[1], firstTransit(routes[1])).found
  /\ timesOf(ownEntry(routes[1], firstTransit(routes[1]))) = {60}
  /\ 0 \in liveTimes(routes[1])
  /\ etaResults[1].waitTime = 60 /\ ~etaResults[1].isEstimate

\* C9: every per-leg arrival list the aggregator returns is sorted ascending
\* by arrivalTime, arrivalTime 0 before every positive time, and holds at
\* most 2 entries of one lineName.
C9_SortedAndCapped ==
  (aggOut.done /\ aggOut.entry.found) =>
    LET list == aggOut.entry.arrivals
    IN /\ \A x \in 1..Len(list) : \A y \in (x + 1)..Len(list) :
            list[x].arrivalTime <= list[y].arrivalTime
       /\ \A x \in 1..Len(list) :
            Cardinality({ y \in 1..Len(list) :
                            list[y].lineName = list[x].lineName }) <= 2

\* C9 witness: three arrivals of one line, out of order, cut to the two
\* soonest with the one at the stop first
C9_Witness ==
  /\ aggOut.done /\ aggOut.entry.found
  /\ aggLeg.type = "bus" /\ Len(aggFeed) = 3
  /\ \A i \in 1..3 : aggFeed[i].lineName = "X"
  /\ aggFeed[1].arrivalTime = 120 /\ aggFeed[2].arrivalTime = 60
  /\ aggFeed[3].arrivalTime = 0
  /\ Len(aggOut.entry.arrivals) = 2
  /\ aggOut.entry.arrivals[1].arrivalTime = 0
  /\ aggOut.entry.arrivals[2].arrivalTime = 60

\* index (1-based, 0 when absent) of a name in the line's station order
mainIndex(lineId, name) ==
  IndexOf(normalizedStations(SUBWAY_LINES[lineId].stations),
          normalizeStationName(name))

\* a call on a linear line, boarding at index i, terminal at index j > i,
\* destination at an index of the station order
LinearCase ==
  /\ reaches.called
  /\ query.lineId \in LineIds
  /\ SUBWAY_LINES[query.lineId].type = "linear"
  /\ mainIndex(query.lineId, query.startStation) > 0
  /\ mainIndex(query.lineId, query.trainTerminal)
       > mainIndex(query.lineId, query.startStation)
  /\ mainIndex(query.lineId, query.destStation) > 0

\* C10 (as stated): on a linear line, boarding at index i and terminal at
\* index j > i, willTrainReachStation is true for a destination at an index
\* in (i, j] and false for one outside, index i included
C10_HalfOpenRange ==
  LinearCase =>
    reaches.value
      = (/\ mainIndex(query.lineId, query.destStation)
              > mainIndex(query.lineId, query.startStation)
         /\ mainIndex(query.lineId, query.destStation)
              <= mainIndex(query.lineId, query.trainTerminal))

\* C10 (amended): on a linear line, boarding at index i and terminal at
\* index j > i, willTrainReachStation is true for a destination at an index
\* in [i, j], the boarding station itself included, and false for a
\* destination at an index < i or > j.
C10_ClosedRange ==
  LinearCase =>
    reaches.value
      = (/\ mainIndex(query.lineId, query.destStation)
              >= mainIndex(query.lineId, query.startStation)
         /\ mainIndex(query.lineId, query.destStation)
              <= mainIndex(query.lineId, query.trainTerminal))

\* C10 witness: the destination is the boarding station and the answer true
C10_Witness ==
  /\ LinearCase
  /\ mainIndex(query.lineId, query.destStation)
       = mainIndex(query.lineId, query.startStation)
  /\ reaches.value


\* a call on the circular line with the forward label, boarding station and
\* terminal on the main loop
ForwardLoopCase ==
  /\ reaches.called
  /\ query.lineId = "1002"
  /\ query.direction = "oeseon"
  /\ mainIndex("1002", query.startStation) > 0
  /\ mainIndex("1002", query.trainTerminal) > 0

\* stations passed after index a before index b is met, going up and wrapping;
\* a train whose terminal is its boarding station goes once round the loop
stepsForward(a, b, mainLen) ==
  IF a = b THEN mainLen ELSE (b - a + mainLen) % mainLen

\* C11: on the circular line with the forward direction label, boarding at
\* main-loop station A with main-loop terminal B, willTrainReachStation is
\* true for destination D exactly when D is a main-loop station met on the
\* walk of increasing index (wrapping) that starts at A and ends on reaching
\* B; a station met only on the walk of decreasing index gives false.
C11_ForwardWalkOnly ==
  ForwardLoopCase =>
    LET mainLen == Len(SUBWAY_LINES["1002"].stations)
        a == mainIndex("1002", query.startStation)
        b == mainIndex("1002", query.trainTerminal)
        d == mainIndex("1002", query.destStation)
    IN reaches.value
         = (/\ d > 0
            /\ (d - a + mainLen) % mainLen <= stepsForward(a, b, mainLen))

\* C11 witness: the walk wraps past the end of the station list, and a
\* station that lies between terminal and boarding station is answered false
C11_Witness ==
  /\ ForwardLoopCase
  /\ mainIndex("1002", query.trainTerminal)
       < mainIndex("1002", query.destStation)
  /\ mainIndex("1002", query.destStation)
       < mainIndex("1002", query.startStation)
  /\ ~reaches.value


\* the filter has run for the leg Gangnam to Jamsilsaenae of line 2
Line2Example == aggOut.done /\ aggLeg = Line2Leg

inFeed(seq, terminal, dir) ==
  { i \in 1..Len(seq) : seq[i].bstatnNm = terminal /\ seq[i].updnLine = dir }

\* C12: for the leg Gangnam to Jamsilsaenae of line 1002, a reported train
\* with terminal Jamsilsaenae and updnLine "oeseon" is kept by the direction
\* filter, and a reported train with terminal Sillim and updnLine "naeseon"
\* is removed by it.
C12_Line2Example ==
  Line2Example =>
    /\ inFeed(aggFeed, "jamsilsaenae", "oeseon") # {}
         => inFeed(aggOut.filteredItems, "jamsilsaenae", "oeseon") # {}
    /\ inFeed(aggOut.filteredItems, "sillim", "naeseon") = {}


\* the normalized names of the line's main-line and branch stations
stationSetOf(lineId) ==
  LET line == SUBWAY_LINES[lineId]
  IN { normalizeStationName(line.stations[i]) : i \in 1..Len(line.stations) }
     \cup UNION { { normalizeStationName(line.branches[b].stations[i]) :
                      i \in 1..Len(line.branches[b].stations) } :
                  b \in 1..Len(line.branches) }

\* the line is unknown, or one of the two names is not a station of it
AbsentCase ==
  /\ reaches.called
  /\ \/ query.lineId \notin LineIds
     \/ normalizeStationName(query.startStation)
          \notin stationSetOf(query.lineId)
     \/ normalizeStationName(query.destStation)
          \notin stationSetOf(query.lineId)

\* C13: determineSubwayDirection returns null, never a direction label, when
\* the line id is unknown or the normalized start or end station name is not
\* among the line's main-line and branch stations.
C13_NullWhenAbsent == AbsentCase => reaches.direction = NULL

\* C13 witness: a known line, a destination of the line, a boarding name the
\* line does not have
C13_Witness ==
  /\ AbsentCase
  /\ query.lineId = "1002"
  /\ query.startStation = "pangyo"
  /\ query.destStation = "seongsu"
  /\ reaches.direction = NULL


\* requests issued by invocation inv, each counted as often as it was issued
requestsBy(inv) == { r \in DOMAIN requests : r.inv = inv }

\* requests to one source for leg i (0: the station prefetch) over all calls
requestCount(i, source) ==
  LET rs == { r \in DOMAIN requests : r.leg = i /\ r.source = source }
      sum[S \in SUBSET rs] ==
        IF S = {} THEN 0
        ELSE LET r == CHOOSE x \in S : TRUE
             IN requests[r] + sum[S \ {r}]
  IN sum[rs]

Sources == {"cityBus", "stopDirectory", "regionalBus", "subway"}

\* two calls with the same legs, the second begun after the first returned
\* and less than the TTL after the first began, both returned
TwiceWithinTtl ==
  /\ Len(invocations) = 2
  /\ invocations[2].legs = invocations[1].legs
  /\ ~invocations[2].overlaps
  /\ invocations[2].startedAt - invocations[1].startedAt
       < ARRIVAL_CACHE_TTL_MS
  /\ finished(invocations[2])

\* C14: when getAllTransitArrivals is called twice with the same legs, the
\* second call less than 20 s after the first, the second call issues no
\* upstream request and over both calls no source is asked more than once
\* for one leg key, whatever the first call's requests came back with.
C14_SecondCallCacheServed ==
  TwiceWithinTtl =>
    /\ requestsBy(2) = {}
    /\ \A i \in 0..MaxLegs, source \in Sources : requestCount(i, source) <= 1


\* a dashboard request in Active hours whose fetches have been started
BatchStarted ==
  /\ mode = "batch"
  /\ pc \in {"fetching", "done", "rejected"}
  /\ ~(kstHourOf(now) >= 1 /\ kstHourOf(now) < 5)

\* <<route, position>> of the transit legs of the routes on one side of the
\* city / intercity split
transitLegsOfKind(rs, intercity) ==
  { p \in UNION { { <<r, i>> : i \in 1..Len(rs[r].legs) } : r \in 1..Len(rs) } :
      /\ rs[p[1]].legs[p[2]].type \in {"bus", "subway"}
      /\ isIntercityBusLeg(rs[p[1]].legs[p[2]], rs[p[1]].routeSource)
           = intercity }

cityKeysOf(rs) ==
  { buildCityLegKey(rs[p[1]].legs[p[2]]) : p \in transitLegsOfKind(rs, FALSE) }

intercityKeysOf(rs) ==
  { buildIntercityLegKey(rs[p[1]].legs[p[2]]) :
      p \in transitLegsOfKind(rs, TRUE) }

\* C15: in calculateAllETAs during Active hours the aggregator is queried
\* once for each distinct city-leg key and the timetable once for each
\* distinct intercity (start, end) key of the user's routes: as many queries
\* as distinct keys, however many routes hold a leg with a key.
C15_OneQueryPerKey ==
  BatchStarted =>
    /\ Len(aggCalls) = Cardinality(cityKeysOf(routes))
    /\ { aggCalls[c].key : c \in 1..Len(aggCalls) } = cityKeysOf(routes)
    /\ Len(tasks) = Cardinality(intercityKeysOf(routes))
    /\ { tasks[t].key : t \in 1..Len(tasks) } = intercityKeysOf(routes)

\* C15 witness: two routes, each with one city leg of the same key, are
\* served by one aggregator query
C15_Witness ==
  /\ BatchStarted
  /\ Len(routes) = 2
  /\ Cardinality(transitLegsOfKind(routes, FALSE)) = 2
  /\ Len(aggCalls) = 1


\* the condition C16 gives for an intercity leg
taggedOrLegacyIntercity(leg, routeSource) ==
  \/ leg.legSubType \in {"intercity_bus", "express_bus"}
  \/ /\ routeSource = "inter_local"
     /\ leg.type = "bus"
     /\ leg.startStationId \in {NULL, ""}

inSeq(seq, x) == \E k \in 1..Len(seq) : seq[k] = x

\* C16: isIntercityBusLeg(leg, routeSource) is true if and only if
\* legSubType is "intercity_bus" or "express_bus", or routeSource is
\* "inter_local" and the leg is a bus leg without a startStationId; so every
\* transit leg of a route is in exactly one of the city set and the
\* intercity set, the intercity set when the condition holds.
C16_IntercityIff ==
  aggOut.done =>
    \A i \in 1..Len(routes[1].legs) :
      LET leg == routes[1].legs[i]
      IN /\ isIntercityBusLeg(leg, routes[1].routeSource)
              = taggedOrLegacyIntercity(leg, routes[1].routeSource)
         /\ leg.type \in {"bus", "subway"} =>
              /\ inSeq(aggOut.intercityLegs, i)
                   = taggedOrLegacyIntercity(leg, routes[1].routeSource)
              /\ inSeq(aggOut.cityLegs, i) = ~inSeq(aggOut.intercityLegs, i)

\* C16 witness: an untagged bus leg without a stop id in an inter_local
\* route is in the intercity set, next to a tagged subway leg
C16_Witness ==
  /\ aggOut.done
  /\ routes[1].routeSource = "inter_local"
  /\ Len(routes[1].legs) = 2
  /\ routes[1].legs[1].type = "bus"
  /\ routes[1].legs[1].legSubType = NULL
  /\ routes[1].legs[1].startStationId = NULL
  /\ routes[1].legs[2].type = "subway"
  /\ routes[1].legs[2].legSubType = "express_bus"
  /\ aggOut.intercityLegs = <<1, 2>>
  /\ aggOut.cityLegs = << >>


\* minute of day of a 12-digit departure time, and of an instant in Korea
minuteOfDay(depPlandTime) ==
  parseIntOr0(SubSeq(depPlandTime, 9, 10)) * 60
  + parseIntOr0(SubSeq(depPlandTime, 11, 12))

currentMinuteOfDay(date) ==
  toKoreaDate(date).hours * 60 + toKoreaDate(date).minutes

\* the timetable getSchedules hands over: nothing when the request failed
timetableOf(q) == IF q.ok THEN q.items ELSE << >>

\* positions of the timetable leaving strictly later than the instant
laterThanNow(items, date) ==
  { i \in 1..Len(items) : minuteOfDay(items[i]) > currentMinuteOfDay(date) }

\* the j-th smallest departure minute among the positions in later
nthDeparture(items, later, j) ==
  CHOOSE v \in { minuteOfDay(items[i]) : i \in later } :
    /\ Cardinality({ i \in later : minuteOfDay(items[i]) < v }) < j
    /\ Cardinality({ i \in later : minuteOfDay(items[i]) <= v }) >= j

hhmm(minutes) == pad2(minutes \div 60) \o ":" \o pad2(minutes % 60)

keyedSources(key) ==
  IF key = "DATA_GO_KR_API_KEY"
  THEN {"cityBus", "stopDirectory", "regionalBus"}
  ELSE {"subway"}

requestsTo(sources) == { r \in DOMAIN requests : r.source \in sources }

\* C18: when DATA_GO_KR_API_KEY is unset no request goes to the city bus
\* feed, the regional stop directory or the regional arrival feed, and when
\* SEOUL_OPENDATA_API_KEY is unset no request goes to the subway feed, for
\* any leg.
C18_NoRequestWithoutKey ==
  /\ dataGoKrKey = "" => requestsTo(keyedSources("DATA_GO_KR_API_KEY")) = {}
  /\ seoulDataKey = "" =>
       requestsTo(keyedSources("SEOUL_OPENDATA_API_KEY")) = {}


\* the terminal a feed item reports, as the filter reads it
reportedTerminal(item) == normalizeStationName(item.bstatnNm)

\* the two ways C19 lets a train through
qualifies(item, start, dest) ==
  \/ /\ reportedTerminal(item) # NULL
     /\ willTrainReachStation(item.subwayId, start, dest,
                              reportedTerminal(item), item.updnLine)
  \/ /\ \/ reportedTerminal(item) = NULL
        \/ ~isStationKnown(item.subwayId, reportedTerminal(item))
     /\ determineSubwayDirection(item.subwayId, start, dest) # NULL
     /\ item.updnLine = determineSubwayDirection(item.subwayId, start, dest)

qualifying(items, start, dest) ==
  { i \in 1..Len(items) : qualifies(items[i], start, dest) }

\* C19: for a subway leg with a destination, every train the direction
\* filter returns either reaches the destination by willTrainReachStation
\* for its reported terminal and direction, or has a missing or unknown
\* terminal and the updnLine that determineSubwayDirection gives from start
\* to destination; if no reported train qualifies the result is the empty
\* list, never the unfiltered list.
C19_OnlyQualifyingTrains ==
  (aggOut.done /\ aggLeg.endStation # NULL) =>
    LET start == stripYeok(aggLeg.startStation)
        dest == stripYeok(aggLeg.endStation)
        good == qualifying(aggFeed, start, dest)
    IN /\ \A k \in 1..Len(aggOut.filteredItems) :
            qualifies(aggOut.filteredItems[k], start, dest)
       /\ \A k \in 1..Len(aggOut.arrivals) :
            \E i \in good : aggOut.arrivals[k] = subwayItemToArrival(aggFeed[i])
       /\ good = {} => aggOut.arrivals = << >>

\* C19 witness: of a train without a terminal in the direction of the leg
\* and one in the other direction, the first is returned
C19_Witness ==
  /\ aggOut.done
  /\ aggLeg = Line2Leg
  /\ Len(aggFeed) = 2
  /\ aggFeed[1].bstatnNm = NULL /\ aggFeed[1].updnLine = "naeseon"
  /\ aggFeed[2].bstatnNm = NULL /\ aggFeed[2].updnLine = "oeseon"
  /\ aggOut.filteredItems = <<aggFeed[1]>>
  /\ Len(aggOut.arrivals) = 1


\* bus legs whose getBusArrival call missed the cache and has returned
missedAndReturned ==
  { c \in (1..Len(invocations)) \X (1..MaxLegs) :
      /\ c[2] <= Len(invocations[c[1]].legs)
      /\ invocations[c[1]].legs[c[2]].type = "bus"
      /\ invocations[c[1]].state[c[2]].miss
      /\ invocations[c[1]].state[c[2]].pc = "done" }

\* getBusArrival of that leg sent a request to one of the sources
askedBy(c, sources) ==
  \E r \in DOMAIN requests :
    /\ r.inv = c[1] /\ r.leg = c[2]
    /\ r.via = "getBusArrival"
    /\ r.source \in sources

cityAsked(c) == askedBy(c, {"cityBus"})

regionalAsked(c) == askedBy(c, {"stopDirectory", "regionalBus"})

\* no arrival of the city feed has one of the leg's line names, whatever
\* the case of the letters
noneMatches(c) ==
  LET leg == invocations[c[1]].legs[c[2]]
      city == invocations[c[1]].state[c[2]].city
  IN \A k \in 1..Len(city), n \in 1..Len(leg.lineNames) :
       toLowerCase(city[k].lineName) # toLowerCase(leg.lineNames[n])

cityOnlyWithSeparator(c) ==
  cityAsked(c) => Includes(invocations[c[1]].legs[c[2]].startStationId, "-")

\* C20 as claimed: on a cache miss getBusArrival queries the city feed only
\* when the stop code contains "-", and queries the regional source if and
\* only if the city feed was not queried, returned no arrivals, or returned
\* arrivals none of which matches one of the leg's line names.
C20_RegionalIffNoMatch ==
  \A c \in missedAndReturned :
    /\ cityOnlyWithSeparator(c)
    /\ regionalAsked(c) <=>
         \/ ~cityAsked(c)
         \/ invocations[c[1]].state[c[2]].city = << >>
         \/ noneMatches(c)

\* C20: on a cache miss getBusArrival queries the city feed only when the
\* stop code contains "-", and queries the regional source if and only if
\* the city feed was not queried, returned no arrivals, or the leg has line
\* names and the city feed returned arrivals none of which matches one of
\* them; a leg without line names takes whatever the city feed returned.
C20_RegionalIffNamedAndNoMatch ==
  \A c \in missedAndReturned :
    /\ cityOnlyWithSeparator(c)
    /\ regionalAsked(c) <=>
         \/ ~cityAsked(c)
         \/ invocations[c[1]].state[c[2]].city = << >>
         \/ /\ Len(invocations[c[1]].legs[c[2]].lineNames) > 0
            /\ noneMatches(c)

\* C20 witness: the city feed returned line Q for a leg of lines X and Y,
\* and the regional source was asked; and it returned line x for such a
\* leg, and the regional source was not asked
C20_Witness ==
  /\ \E c \in missedAndReturned :
       /\ invocations[c[1]].legs[c[2]] = CityStop
       /\ Len(invocations[c[1]].state[c[2]].city) = 1
       /\ invocations[c[1]].state[c[2]].city[1].lineName = "Q"
       /\ regionalAsked(c)
  /\ \E c \in missedAndReturned :
       /\ invocations[c[1]].legs[c[2]] = CityStop
       /\ Len(invocations[c[1]].state[c[2]].city) = 1
       /\ invocations[c[1]].state[c[2]].city[1].lineName = "x"
       /\ ~regionalAsked(c)


logOf(kind) == SelectSeq(retryLog, LAMBDA e : e.kind = kind)

retryable(status) == status = 0 \/ status = 429 \/ status >= 500

\* the statuses answered so far, and what each led to
retryDiscipline ==
  LET fetches == logOf("fetch")
      answers == logOf("response")
      delays == logOf("delay")
  IN /\ Len(fetches) <= MAX_RETRIES + 1
     /\ \A k \in 1..Len(delays) :
          delays[k].value = IF k = 1 THEN 1000 ELSE 2000
     /\ Len(delays) <= 2
     /\ \A k \in 1..Len(answers) :
          IF responseOk(answers[k].value)
             \/ (answers[k].value >= 400 /\ answers[k].value < 500
                 /\ answers[k].value # 429)
          THEN k = Len(answers) /\ retryPc = "returned"
          ELSE /\ retryable(answers[k].value)
               /\ k < 3 => Len(delays) >= k
               /\ k = 3 => retryPc = "thrown"
     /\ retryPc = "returned" =>
          ~retryable(retryLog[Len(retryLog)].value)
     /\ retryPc = "thrown" => Len(answers) = 3
     /\ Len(fetches) > 1 => retryable(answers[Len(fetches) - 1].value)

grantedWithin(key, t) ==
  { k \in 1..Len(timestampsOf(granted, key)) :
      /\ granted[key][k] > t - windowMs
      /\ granted[key][k] <= t }

\* C23: for any key and any tryRequest calls at non-decreasing times, the
\* calls that return true within any window of windowMs milliseconds are at
\* most maxRequests; and getRetryAfterMs(key) returns 0 exactly when
\* canMakeRequest(key) is true.
C23_WindowBound ==
  /\ \A key \in LimiterKeys, t \in 0..(LimiterMaxClock \div LimiterTickMs) :
       Cardinality(grantedWithin(key, t * LimiterTickMs)) <= maxRequests
  /\ retryAnswer.key # NULL => (retryAnswer.value = 0 <=> retryAnswer.can)

\* C23 witness: with 2 requests per 2000 ms, a key granted twice at 0 is
\* told at 1000 to wait 1000 ms, and is granted again at 2000
C23_Witness ==
  /\ maxRequests = 2 /\ windowMs = 2000
  /\ timestampsOf(granted, "kakao-pubtrans") = <<0, 0, 2000>>
  /\ retryAnswer = [key |-> "kakao-pubtrans", value |-> 1000, can |-> FALSE]


loadsInFlight == { id \in DOMAIN loadPromises : loadPromises[id] = "pending" }

\* a load has completed and has left a non-empty directory
loadedNonEmpty ==
  /\ \E id \in DOMAIN loadPromises : loadPromises[id] = "fulfilled"
  /\ Len(terminalList) > 0

\* C22: for any interleaving of concurrent ensureTerminalsLoaded callers,
\* at most one loadTerminals is in flight at any time: a caller arriving
\* while a load is in progress waits for that same load and starts no
\* second one, and once a load has completed with a non-empty directory no
\* further load is ever started.
C22_OneLoadInFlight ==
  /\ [](Cardinality(loadsInFlight) <= 1)
  /\ [][ /\ loadsInFlight # {} => DOMAIN loadPromises' = DOMAIN loadPromises
         /\ \A c \in Callers :
              (loadsInFlight # {} /\ callers[c].pc = "out"
               /\ callers'[c].pc # "out")
                => callers'[c] = [pc |-> "waiting", on |-> syncPromise]
                   /\ syncPromise \in loadsInFlight
         /\ loadedNonEmpty => DOMAIN loadPromises' = DOMAIN loadPromises
       ]_vars

\* C22 witness: two callers wait on the second load while it is in flight,
\* the first load having failed
C22_Witness ==
  /\ DOMAIN loadPromises = {"load1", "load2"}
  /\ loadPromises["load1"] = "rejected"
  /\ loadPromises["load2"] = "pending"
  /\ callers["a"] = [pc |-> "loading", on |-> "load2"]
  /\ callers["b"] = [pc |-> "waiting", on |-> "load2"]
  /\ callers["c"] = [pc |-> "waiting", on |-> "load2"]


\* the leg queries of the calls made so far
legQueries ==
  { c \in (1..Len(invocations)) \X (1..MaxLegs) :
      c[2] <= Len(invocations[c[1]].legs) }

legOf(c) == invocations[c[1]].legs[c[2]]

queryOf(c) == invocations[c[1]].state[c[2]]

\* what getAllTransitArrivals has to give for the leg, the persistence of
\* a resolved id put aside
arrivalsView(call) ==
  [i \in 1..Len(call.legs) |-> [pc |-> call.state[i].pc,
                                 feed |-> call.state[i].feed]]

\* C24: getAllTransitArrivals invokes onResolvedGyeonggiStation(legId,
\* stationId) for a leg only if the leg is a bus leg whose stop code has no
\* "-", has no persisted gyeonggiStationId, has an id, and its stop-number
\* resolution returned an id; stationId is that id; and a failure of the
\* caller's persistence of it never changes or fails the arrivals returned.
C24_CallbackOnlyOnFreshResolution ==
  /\ [](\A c \in legQueries :
          queryOf(c).notified # NoNotice =>
            /\ legOf(c).type = "bus"
            /\ ~Includes(legOf(c).startStationId, "-")
            /\ legOf(c).gyeonggiStationId = NULL
            /\ legOf(c).id # NULL
            /\ queryOf(c).notified.legId = legOf(c).id
            /\ queryOf(c).notified.stationId # NULL
            /\ queryOf(c).notified.stationId = queryOf(c).pre
            /\ gyeonggiStationCache[legOf(c).startStationId]
                 = queryOf(c).notified.stationId)
  /\ [][ \A c \in legQueries :
           (queryOf(c).persist = "pending"
            /\ invocations'[c[1]].state[c[2]].persist = "failed")
             => /\ arrivalsView(invocations'[c[1]])
                     = arrivalsView(invocations[c[1]])
                /\ busArrivalCache' = busArrivalCache
       ]_vars

\* C24 witness: the stop number of a regional leg was resolved, the
\* callback got the leg id and the station id, the update of the row
\* failed and the call returned the arrivals of the regional feed
C24_Witness ==
  \E c \in legQueries :
    /\ legOf(c) = RegionalStop
    /\ queryOf(c).notified = [legId |-> "leg3", stationId |-> "200000123"]
    /\ queryOf(c).persist = "failed"
    /\ finished(invocations[c[1]])
    /\ Len(returned(invocations[c[1]])) = 1
    /\ returned(invocations[c[1]])[1].arrivals # << >>


\* the subway prefetches of the calls made so far
prefetches ==
  { p \in (1..Len(invocations)) \X {SubwayStop.startStation} :
      p[2] \in DOMAIN invocations[p[1]].subway }

\* C25: a bus or subway result is served from the arrival cache only while
\* fewer than 20 s have passed since the start of the request that wrote
\* the entry; a query made 20 s or more after that start sends a new
\* upstream request, so nothing older than 20 s comes from the cache.
C25_ServedWithinTtl ==
  /\ \A c \in legQueries :
       /\ queryOf(c).servedFrom # NotServed =>
            /\ queryOf(c).now - queryOf(c).servedFrom < 20000
            /\ ~queryOf(c).miss
       /\ queryOf(c).miss =>
            \E r \in DOMAIN requests :
              r.inv = c[1] /\ r.leg = c[2] /\ r.via = "getBusArrival"
  /\ \A p \in prefetches :
       LET pre == invocations[p[1]].subway[p[2]]
       IN /\ pre.servedFrom # NotServed =>
               invocations[p[1]].startedAt - pre.servedFrom < 20000
          /\ (seoulDataKey # "" /\ pre.servedFrom = NotServed) =>
               \E r \in DOMAIN requests :
                 r.inv = p[1] /\ r.source = "subway" /\ r.via = p[2]

\* C25 witness: a stop asked at 0 and again at 20000 missed the cache the
\* second time, and the entry is now the one written by the second query
C25_Witness ==
  /\ Len(invocations) = 2
  /\ invocations[1].legs = <<CityStop>>
  /\ invocations[2].legs = <<CityStop>>
  /\ invocations[1].startedAt = 0
  /\ invocations[2].startedAt = 20000
  /\ invocations[1].state[1].pc = "done"
  /\ invocations[2].state[1].miss
  /\ "bus:23-101" \in DOMAIN busArrivalCache
  /\ busArrivalCache["bus:23-101"].since = 20000

\* the rows of a user
rowsOf(userId) == countOf(savedRoute, userId)

\* C26: (as stated) after any interleaving of saveRoute calls a user has at
\* most 5 saved routes, and a call that found 5 rows fails with
\* MaxRoutesExceededError and creates no row
C26_AtMostFiveRoutes ==
  /\ \A u \in Users : rowsOf(u) <= 5
  /\ \A c \in SaveCallers :
       saveCalls[c].pc # "out" /\ saveCalls[c].count >= 5 =>
         /\ saveCalls[c].pc = "thrown"
         /\ \A k \in 1..Len(savedRoute) : savedRoute[k].by # c

\* the leg queries of the service that were answered from the bus cache
servedLegs == { c \in legQueries : queryOf(c).servedFrom # NotServed }

\* the upstream answers the writer of an entry saw settle what a query for
\* these line names gets: the city feed's answer when it accepts it, and
\* the writer's regional result when the writer went there too
freshKnown(leg, entry) ==
  \/ seoulAccepted(leg, entry.city)
  \/ ~seoulAccepted([lineNames |-> entry.names], entry.city)

\* getBusArrival(S, L) on a miss against the answers the writer saw
fresh(leg, entry) ==
  IF seoulAccepted(leg, entry.city) THEN entry.city ELSE entry.data

\* C27: (as stated) a result served from the bus arrival cache to a leg is
\* the result an uncached getBusArrival for the leg's stop and line names
\* returns against the same upstream answers, whatever line names the leg
\* that wrote the entry had
C27_CacheTransparent ==
  \A c \in servedLegs :
    freshKnown(legOf(c), queryOf(c).hit) =>
      queryOf(c).feed = fresh(legOf(c), queryOf(c).hit)

\* what findTerminalByName(name) returns when called now with the directory
\* in memory
lookedUpNow(name) ==
  IF name \in DOMAIN terminalNameCache THEN terminalNameCache[name]
  ELSE matchTerminal(terminalList, name)

\* C28: (as stated) once the directory has loaded, findTerminalByName gives
\* a name the terminal id that matches it in the directory, also a name
\* that was looked up before while the directory was empty after a load
\* that failed
C28_NoPoisonedLookup ==
  (syncState = "done" /\ Len(terminalList) > 0) =>
    \A name \in DOMAIN terminalNameCache :
      lookedUpNow(name) = matchTerminal(terminalList, name)

\* the entries of a result pushed for city legs from realtime data
liveCityEntries(res) ==
  { x \in 1..Len(res.legArrivals) :
      /\ ~isPlaceholder(res.legArrivals[x])
      /\ ~isIntercityBusLeg(
            routeOfResult(res).legs[res.legArrivals[x].emittedFor],
            routeOfResult(res).routeSource) }

\* the entry is one of the leg's own aggregator result
ownArrival(e, leg) ==
  /\ e.type = leg.type
  /\ e.endStation = leg.endStation
  /\ Len(leg.lineNames) > 0 => matchesLineNames(e, leg.lineNames)

\* C29: (as stated) every entry of legArrivals that is not a placeholder and
\* stands at the position of a city leg carries that leg's type and
\* endStation and, when the leg has line names, a line name matching one of
\* them, also when two city legs of the route start at the same station
C29_OwnAggregatorResult ==
  Answered =>
    \A r \in 1..Len(etaResults) :
      \A x \in liveCityEntries(etaResults[r]) :
        ownArrival(etaResults[r].legArrivals[x],
                   routeOfResult(etaResults[r]).legs[
                     etaResults[r].legArrivals[x].emittedFor])

\* the result of the dashboard for the route with this id
batchResultOf(id) ==
  etaResults[CHOOSE r \in 1..Len(etaResults) : etaResults[r].routeId = id]

sameETA(a, b) ==
  /\ a.waitTime = b.waitTime
  /\ a.isEstimate = b.isEstimate
  /\ a.legArrivals = b.legArrivals

\* C30: (as stated) the result calculateAllETAs gives for a route has the
\* waitTime, isEstimate and legArrivals of calculateETA(route) at the same
\* instant on the same upstream answers, whatever the other routes are
C30_BatchEqualsSingle ==
  \A r \in 1..Len(singleResults) :
    sameETA(batchResultOf(routes[r].id), singleResults[r])

====
